---- MODULE Spec2Model ----
(***************************************************************************)
(* Peasauce loader library and block/flag model.                           *)
(*                                                                         *)
(* The module models, from the Python sources,                             *)
(*   - loaderlib.FileInfo and add_segment          (specification SpecSeg) *)
(*   - loaderlib.identify_file / load_file and the format handlers         *)
(*                                              (specification SpecLoader) *)
(*   - loaderlib.relocate_segment_data and the 32-bit codec                *)
(*                                               (specification SpecReloc) *)
(*   - the load sequence around them         (specification SpecFramework) *)
(*   - disassembly_data block flag accessors     (specification SpecFlags) *)
(* Python's None is modelled as the empty sequence and a present value x   *)
(* as the one-element sequence <<x>>.                                      *)
(***************************************************************************)
EXTENDS Integers, Sequences, FiniteSets, TLC

VARIABLES
    file_info,              \* the FileInfo being built / relocated
    input_file,             \* the input file, as what the format modules answer when shown it
    last_call,              \* "none", or the loaderlib function that returned last
    matches,                \* identify_file: the pooled (system, match) pairs, in pooling order
    selected,               \* identify_file: matches[0] after the sort (None when the pool is empty)
    identified,             \* identify_file: its return value (None, or the result)
    load_args,              \* load_file: the arguments of the last call (None before any call)
    asked,                  \* load_file: per handler asked, in order: what it was given and what it did
    returned,               \* load_file: its return value (None, or the FileInfo)
    processor_id,           \* System.processor_id of every registered system object
    data_types_endian,      \* DataTypes.endian_id used by the relocation pass
    relocatable_addresses,  \* set handed to relocate_segment_data
    relocated_addresses,    \* dict handed to relocate_segment_data: address -> set of referrers
    reloc_status,           \* "none", "ok" (the pass returned) or "raised" (it raised an exception)
    reloc_runs,             \* number of relocation passes begun over file_info's segment data
    loaded_segments,        \* the segments as they were before the first relocation pass
    program_state,          \* ProgramData.state of the program being loaded
    load_step,              \* how far the load of the file has come
    cache_status,           \* "none", or how the cache_segment_data calls of the load ended
    block_flags,            \* SegmentBlock.flags of the block under test
    flags_before,           \* block_flags before the last set_block_data_type
    tag_set,                \* the data_type argument of the last set_block_data_type (None before)
    tag_got,                \* get_block_data_type(block) read right after the last set
    blocks,                 \* the SegmentBlock objects constructed so far, as the block list holds them
    last_sequence_id,       \* SegmentBlock.last_sequence_id
    block_op,               \* the last block operation: its kind, the block it was given, the new block
    codec_call,             \* the DataTypes call made: its arguments (drawn with the initial state)
    codec_result,           \* what the call did: returned a value, returned None, or raised
    dialog,                 \* the LoadProjectDialog: its widgets and validation fields
    load_options,           \* the LoadProjectOptions handed to the dialog
    project_load,           \* "none", or how the reload of the project ended
    ui_load,                \* MainWindow.attempt_open_file: the load under way and its progress dialog
    startup,                \* run._arg_file_load: sys.argv and what the handler did with it
    entrypoint,             \* the texts of the New Project dialog and the last get_entrypoint_address
    cache_call,             \* the last loaderlib call on the segments: its arguments, the segments before
    main_window             \* MainWindow: its progress dialog, its views, the editor state, the last menu_file_open

vars == << file_info, input_file, last_call, matches, selected, identified, load_args, asked, returned,
           processor_id, data_types_endian, relocatable_addresses, relocated_addresses,
           reloc_status, reloc_runs, loaded_segments, program_state, load_step,
           cache_status, block_flags, flags_before, tag_set, tag_got, blocks, last_sequence_id, block_op,
           codec_call, codec_result, dialog, load_options, project_load, ui_load,
           startup, entrypoint, cache_call, main_window >>

segVars    == << file_info >>
callVars   == << input_file, last_call >>
identVars  == << matches, selected, identified >>
loadVars   == << load_args, asked, returned >>
relocVars  == << data_types_endian, relocatable_addresses, relocated_addresses,
                 reloc_status, reloc_runs, loaded_segments, program_state, load_step,
                 cache_status >>
blockVars  == << blocks, last_sequence_id, block_op >>
codecVars  == << codec_call, codec_result >>
appVars    == << startup, entrypoint, cache_call, main_window >>
uiVars     == << dialog, load_options, project_load, ui_load, appVars >>
flagVars   == << block_flags, flags_before, tag_set, tag_got, blockVars, codecVars, uiVars >>

None == << >>
Some(x) == << x >>

(***************************************************************************)
(* loaderlib/constants.py                                                  *)
(***************************************************************************)
MATCH_NONE == 0
MATCH_POSSIBLE == 1
MATCH_PROBABLE == 2
MATCH_CERTAIN == 3

PROCESSOR_UNKNOWN == 0
PROCESSOR_M680x0 == 100
PROCESSOR_M68000 == 101
PROCESSOR_M68010 == 102
PROCESSOR_M68020 == 103
PROCESSOR_M68030 == 104
PROCESSOR_M68040 == 105
PROCESSOR_M68060 == 106
PROCESSOR_MIPS == 200
PROCESSOR_P65c816 == 300
PROCESSOR_Z80 == 400

PLATFORM_UNKNOWN == 0
PLATFORM_AMIGA == 1000
PLATFORM_ATARIST == 2000
PLATFORM_SNES == 6000
PLATFORM_X68000 == 7000
PLATFORM_ZXSPECTRUM == 8000

FILEFORMAT_UNKNOWN == 0
AMIGA_HUNK_EXECUTABLE == PLATFORM_AMIGA + 1
ATARIST_GEMDOS_EXECUTABLE == PLATFORM_ATARIST + 1
SNES_SMC == PLATFORM_SNES + 1
X68000_X_EXECUTABLE == PLATFORM_X68000 + 1
ZXSPECTRUM_Z80_1 == PLATFORM_ZXSPECTRUM + 1

ENDIAN_UNKNOWN == 0
ENDIAN_BIG == 1
ENDIAN_LITTLE == 2

DATA_TYPE_CODE == 1
DATA_TYPE_ASCII == 2
DATA_TYPE_DATA08 == 3
DATA_TYPE_DATA16 == 4
DATA_TYPE_DATA32 == 5

\* disassembly_data.py
STATE_LOADING == 1
STATE_LOADED == 2

\* program_data_set_state comparing where it should assign: the state stays as it was.
program_data_set_state_Compares(state, new_state) == state

\* disassembly_data.program_data_set_state: the new value of program_data.state.
program_data_set_state(state, new_state) == new_state

(***************************************************************************)
(* loaderlib/__init__.py: segments and FileInfo                            *)
(***************************************************************************)
SEGMENT_TYPE_CODE == 1
SEGMENT_TYPE_DATA == 2
SEGMENT_TYPE_BSS == 3

\* @dataclass Segment
Segment(type, file_offset, data_length, length, address, cached_data) ==
    [ type |-> type, file_offset |-> file_offset, data_length |-> data_length,
      length |-> length, address |-> address, cached_data |-> cached_data ]

get_segment_address(segments, segment_id) == segments[segment_id + 1].address

get_segment_length(segments, segment_id) == segments[segment_id + 1].length

get_segment_data(segments, segment_id) == segments[segment_id + 1].cached_data

\* class BinaryFileOptions / NewProjectOptions as handed to load_file
LoaderOptions(is_binary_file, proc, load_address, entrypoint_offset) ==
    [ is_binary_file |-> is_binary_file, processor_id |-> proc,
      load_address |-> load_address, entrypoint_segment_id |-> 0,
      entrypoint_offset |-> entrypoint_offset ]

\* FileInfo.__init__(system, file_name, loader_options); loader_options is None or Some(options)
FileInfoInit(system, loader_options) ==
    [ system |-> system,
      loader_options |-> loader_options,
      segments |-> << >>,
      relocations_by_segment_id |-> << >>,
      symbols_by_segment_id |-> << >>,
      load_address |-> IF loader_options # None /\ loader_options[1].is_binary_file
                       THEN loader_options[1].load_address
                       ELSE 0,
      entrypoint_segment_id |-> IF loader_options # None
                                THEN loader_options[1].entrypoint_segment_id
                                ELSE 0,
      entrypoint_offset |-> IF loader_options # None
                            THEN loader_options[1].entrypoint_offset
                            ELSE 0 ]

\* add_segment with the predecessor's data_length taken for its length.
NextSegmentAddress_DataLength(fi) ==
    LET segment_id == Len(fi.segments)
    IN  IF segment_id > 0
        THEN get_segment_address(fi.segments, segment_id - 1)
             + fi.segments[segment_id].data_length
        ELSE fi.load_address

\* The address add_segment gives the segment it appends.
NextSegmentAddress(fi) ==
    LET segment_id == Len(fi.segments)
    IN  IF segment_id > 0
        THEN get_segment_address(fi.segments, segment_id - 1)
             + get_segment_length(fi.segments, segment_id - 1)
        ELSE fi.load_address

\* FileInfo.add_segment
add_segment(fi, segment_type, file_offset, data_length, segment_length, relocations, symbols) ==
    [ fi EXCEPT
        !.segments = Append(@, Segment(segment_type, file_offset, data_length,
                                       segment_length, NextSegmentAddress(fi), None)),
        !.relocations_by_segment_id = Append(@, relocations),
        !.symbols_by_segment_id = Append(@, symbols) ]

\* FileInfo.add_code_segment
add_code_segment(fi, file_offset, data_length, segment_length, relocations, symbols) ==
    add_segment(fi, SEGMENT_TYPE_CODE, file_offset, data_length, segment_length,
                relocations, symbols)


(***************************************************************************)
(* Registered systems (loaderlib/__init__.py _generate_module_data)        *)
(***************************************************************************)
\* The registration order of systems_by_name.
SystemNames == << "amiga", "atarist", "human68k", "binary", "snes", "zxspectrum" >>

Systems == { SystemNames[i] : i \in 1..Len(SystemNames) }

\* Position of a system in the registration order.
SystemIndex(name) == CHOOSE i \in 1..Len(SystemNames) : SystemNames[i] = name

\* The class attribute processor_id of every System class.
InitialProcessorId ==
    [ s \in Systems |->
        CASE s = "amiga"      -> PROCESSOR_M680x0
          [] s = "human68k"   -> PROCESSOR_M680x0
          [] s = "binary"     -> PROCESSOR_UNKNOWN
          [] s = "zxspectrum" -> PROCESSOR_Z80
          [] s = "atarist"    -> PROCESSOR_M680x0
          [] s = "snes"       -> PROCESSOR_P65c816 ]

\* The class attribute endian_id of every System class.
SystemEndian ==
    [ s \in Systems |->
        CASE s = "amiga"      -> ENDIAN_BIG
          [] s = "human68k"   -> ENDIAN_BIG
          [] s = "binary"     -> ENDIAN_BIG
          [] s = "zxspectrum" -> ENDIAN_LITTLE
          [] s = "atarist"    -> ENDIAN_BIG
          [] s = "snes"       -> ENDIAN_LITTLE ]

(***************************************************************************)
(* Values of the variables a specification does not use.                   *)
(***************************************************************************)
EmptyDict == [ a \in {} |-> {} ]

IdentIdle ==
    /\ input_file = << >>
    /\ last_call = "none"
    /\ matches = << >> /\ selected = None /\ identified = None

LoadIdle == load_args = None /\ asked = << >> /\ returned = None

RelocIdle ==
    /\ data_types_endian = ENDIAN_BIG
    /\ relocatable_addresses = {}
    /\ relocated_addresses = EmptyDict
    /\ reloc_status = "none"
    /\ reloc_runs = 0
    /\ loaded_segments = << >>
    /\ program_state = STATE_LOADING
    /\ load_step = "idle"
    /\ cache_status = "none"

NoBlockOp == [ kind |-> "none", from |-> 0, new |-> 0, before |-> << >>, last_before |-> 0 ]

NoCodecResult == [ kind |-> "none", value |-> << >>, error |-> "", bytes_after |-> << >> ]

\* No dialog has been made and no file is being opened.
NoDialog ==
    [ result |-> "none", path_lineedit |-> "", validation_attempt |-> 0,
      validation_attempt_text |-> << >>, valid_file_path |-> << >>,
      valid_size_checkbox |-> FALSE, valid_checksum_checkbox |-> FALSE,
      load_button |-> FALSE, timers |-> {} ]

NoLoadOptions ==
    [ input_file_filesize |-> 0, input_file_checksum |-> "", loader_file_path |-> << >> ]

NoUiLoad ==
    [ phase |-> "idle", active_client |-> FALSE, step_count |-> 0, step |-> 0, fail_step |-> 0,
      progress_dialog |-> "none", cancel_click |-> FALSE, abort_requested |-> FALSE,
      step_at_abort |-> 0, result |-> "none", on_file_opened |-> 0, message_box |-> FALSE ]

\* _arg_file_load has not run.
NoStartup ==
    [ argv |-> << >>, load_answer |-> << >>, called |-> FALSE, returned |-> << >>,
      raised |-> "", error_text |-> << >>, load_attempted |-> "", printed |-> << >> ]

\* No binary project has been created and no entry address asked for.
NoEntrypoint ==
    [ load_text |-> "", entry_text |-> "", accepted |-> "", new_options |-> << >>,
      value |-> << >> ]

\* No call on the segments has been made.
NoCacheCall ==
    [ op |-> "none", segment_id |-> 0, base_file_offset |-> 0, file_ops |-> << >>,
      segments_before |-> << >> ]

APPLICATION_NAME == "PeaSauce"

\* CustomItemModel.__init__: no rows, sorted on column 0, ascending.
NoItemModel ==
    [ _row_data |-> << >>, _sort_column1 |-> 0, _sort_column2 |-> 0,
      _sort_order |-> "AscendingOrder", inserted |-> << >> ]

\* MainWindow as constructed: no progress dialog, the title APPLICATION_NAME, empty views,
\* the editor in its initial state, menu_file_open not yet chosen.
NoMenuCall ==
    [ called |-> FALSE, state_before |-> "initial", answer |-> "", asked |-> FALSE,
      reset_all |-> FALSE, attempted |-> FALSE, window_before |-> << >> ]

NoMainWindow ==
    [ _progress_dialog |-> << >>, _progress_dialog_steps |-> 0, handled |-> << >>,
      raised |-> "", window_title |-> APPLICATION_NAME, rows_shown |-> FALSE,
      editor_state |-> "initial", load_attempts |-> 0, menu |-> NoMenuCall,
      symbols_model |-> NoItemModel, addition_rows |-> << >>, rows_before |-> << >>,
      last_handler |-> "" ]

AppIdle ==
    /\ startup = NoStartup
    /\ entrypoint = NoEntrypoint
    /\ cache_call = NoCacheCall
    /\ main_window = NoMainWindow

UiIdle ==
    /\ dialog = NoDialog /\ load_options = NoLoadOptions /\ project_load = "none"
    /\ ui_load = NoUiLoad
    /\ AppIdle

CodecIdle == codec_call = [ op |-> "none" ] /\ codec_result = NoCodecResult /\ UiIdle

BlockIdle ==
    /\ blocks = << >> /\ last_sequence_id = 0 /\ block_op = NoBlockOp
    /\ CodecIdle

FlagIdle ==
    /\ block_flags = 0 /\ flags_before = 0 /\ tag_set = None /\ tag_got = None
    /\ BlockIdle

(***************************************************************************)
(* SpecSeg: a FileInfo and the add_segment calls a handler makes on it.    *)
(***************************************************************************)
MaxSegments == 2

\* Values the handlers pass to add_segment.
SegmentTypes == { SEGMENT_TYPE_CODE, SEGMENT_TYPE_DATA, SEGMENT_TYPE_BSS }
FileOffsets == { -1, 0 }
DataLengths == { 0, 2 }
SegmentLengths == { 0, 1, 3 }

\* The loader options a FileInfo is constructed with.
SegOptionChoices ==
    { None,
      Some(LoaderOptions(TRUE, PROCESSOR_M68000, 4096, 0)),
      Some(LoaderOptions(FALSE, PROCESSOR_M68000, 4096, 0)) }

SegInit ==
    /\ \E opts \in SegOptionChoices : file_info = FileInfoInit("amiga", opts)
    /\ IdentIdle /\ LoadIdle /\ RelocIdle /\ FlagIdle
    /\ processor_id = InitialProcessorId

\* A handler constructs a fresh FileInfo (as load_file does per handler).
NewFileInfo ==
    /\ \E opts \in SegOptionChoices : file_info' = FileInfoInit("amiga", opts)
    /\ UNCHANGED << callVars, identVars, loadVars, processor_id, relocVars, flagVars >>

\* file_info.add_segment(...) (also reached through add_code/data/bss_segment).
AddSegment ==
    /\ Len(file_info.segments) < MaxSegments
    /\ \E t \in SegmentTypes, fo \in FileOffsets, dl \in DataLengths, sl \in SegmentLengths :
          file_info' = add_segment(file_info, t, fo, dl, sl, << >>, << >>)
    /\ UNCHANGED << callVars, identVars, loadVars, processor_id, relocVars, flagVars >>

SegNext == NewFileInfo \/ AddSegment

SpecSeg == SegInit /\ [][SegNext]_vars

\* The load address a FileInfo is configured with by its loader options.
ConfiguredLoadAddress(fi) ==
    IF fi.loader_options # None /\ fi.loader_options[1].is_binary_file
    THEN fi.loader_options[1].load_address
    ELSE 0

\* C1: after any sequence of add_segment calls, segment 0 starts at the configured load
\* address and every later segment starts where its predecessor ends (address + length).
C1_SegmentAddressChain ==
    \A n \in 1..Len(file_info.segments) :
        file_info.segments[n].address =
            IF n = 1
            THEN ConfiguredLoadAddress(file_info)
            ELSE file_info.segments[n-1].address + file_info.segments[n-1].length

\* C1 witness: two segments on a non-zero load address, the first with length # data_length.
C1_Witness ==
    /\ Len(file_info.segments) = 2
    /\ file_info.load_address = 4096
    /\ file_info.segments[1].length = 3
    /\ file_info.segments[1].data_length = 2
    /\ file_info.segments[2].address = 4099


(***************************************************************************)
(* identify_file and the handlers' identify_input_file                     *)
(***************************************************************************)
\* class MatchResult
MatchResult(confidence, platform_id, file_format_id) ==
    [ confidence |-> confidence, platform_id |-> platform_id,
      file_format_id |-> file_format_id ]

Confidences == { MATCH_NONE, MATCH_POSSIBLE, MATCH_PROBABLE, MATCH_CERTAIN }

\* What the format module of a system (hunkfile, xfile, z80file, ...) can answer for some
\* input file: any confidence, its platform or UNKNOWN, its file format or UNKNOWN.
OwnPlatform ==
    [ s \in Systems \ { "binary" } |->
        CASE s = "amiga"      -> PLATFORM_AMIGA
          [] s = "atarist"    -> PLATFORM_ATARIST
          [] s = "human68k"   -> PLATFORM_X68000
          [] s = "snes"       -> PLATFORM_SNES
          [] s = "zxspectrum" -> PLATFORM_ZXSPECTRUM ]

OwnFormat ==
    [ s \in Systems \ { "binary" } |->
        CASE s = "amiga"      -> AMIGA_HUNK_EXECUTABLE
          [] s = "atarist"    -> ATARIST_GEMDOS_EXECUTABLE
          [] s = "human68k"   -> X68000_X_EXECUTABLE
          [] s = "snes"       -> SNES_SMC
          [] s = "zxspectrum" -> ZXSPECTRUM_Z80_1 ]

FormatMatches(s) ==
    { MatchResult(c, p, f) : c \in Confidences,
                             p \in { PLATFORM_UNKNOWN, OwnPlatform[s] },
                             f \in { FILEFORMAT_UNKNOWN, OwnFormat[s] } }

\* A format module that recognises the file (its platform and format) or does not
\* (the defaults of MatchResult), with any confidence.
PlainFormatMatches(s) ==
    { MatchResult(c, pf[1], pf[2]) :
        c \in Confidences,
        pf \in { << PLATFORM_UNKNOWN, FILEFORMAT_UNKNOWN >>, << OwnPlatform[s], OwnFormat[s] >> } }

\* amiga.System.identify_input_file without the test of platform_id.
AmigaIdentify_NoFilter(match) == << match >>

\* amiga.System.identify_input_file: match is what hunkfile.identify_input_file answers.
AmigaIdentify(match) ==
    IF match.platform_id # PLATFORM_UNKNOWN THEN << match >> ELSE << >>

\* human68k.System.identify_input_file: match is what xfile.identify_input_file answers.
Human68kIdentify(match) ==
    IF match.platform_id # PLATFORM_UNKNOWN THEN << match >> ELSE << >>

\* zxspectrum.System.identify_input_file: match is what z80file.identify_input_file answers.
ZxSpectrumIdentify(match) ==
    IF match.platform_id # PLATFORM_UNKNOWN THEN << match >> ELSE << >>

\* binary.System.identify_input_file: "User selected files should not be identified as binary."
BinaryIdentify == << >>

\* atarist.System.identify_input_file: returns zero or more candidates.
AtariStIdentify(candidates) == candidates

\* snes.System.identify_input_file: returns zero or more candidates.
SnesIdentify(candidates) == candidates

\* What the input file makes the format modules answer to identify_input_file: one
\* MatchResult per format module of amiga, human68k and zxspectrum, a candidate list for
\* atarist and snes.
IdentifyAnswers ==
    [ amiga : FormatMatches("amiga"),
      human68k : PlainFormatMatches("human68k"),
      zxspectrum : FormatMatches("zxspectrum"),
      atarist : { << >> } \cup { << MatchResult(c, PLATFORM_ATARIST, ATARIST_GEMDOS_EXECUTABLE) >> :
                                    c \in { MATCH_POSSIBLE, MATCH_CERTAIN } },
      snes : { << >> } \cup { << MatchResult(c, p, SNES_SMC) >> :
                                 c \in { MATCH_PROBABLE, MATCH_CERTAIN },
                                 p \in { PLATFORM_UNKNOWN, PLATFORM_SNES } } ]

\* The answers of a file no format module recognises.
NoIdentifyAnswers ==
    [ amiga |-> MatchResult(MATCH_NONE, PLATFORM_UNKNOWN, FILEFORMAT_UNKNOWN),
      human68k |-> MatchResult(MATCH_NONE, PLATFORM_UNKNOWN, FILEFORMAT_UNKNOWN),
      zxspectrum |-> MatchResult(MATCH_NONE, PLATFORM_UNKNOWN, FILEFORMAT_UNKNOWN),
      atarist |-> << >>,
      snes |-> << >> ]

\* system.identify_input_file(...) of the system registered under name s.
identify_input_file(s, input) ==
    CASE s = "amiga"      -> AmigaIdentify(input.amiga)
      [] s = "atarist"    -> AtariStIdentify(input.atarist)
      [] s = "human68k"   -> Human68kIdentify(input.human68k)
      [] s = "binary"     -> BinaryIdentify
      [] s = "snes"       -> SnesIdentify(input.snes)
      [] s = "zxspectrum" -> ZxSpectrumIdentify(input.zxspectrum)

\* The loop of identify_file: matches.extend((file_info, match, system) ...) per system,
\* from the i-th registered system on.
RECURSIVE PoolFrom(_, _)
PoolFrom(i, input) ==
    IF i > Len(SystemNames)
    THEN << >>
    ELSE LET s == SystemNames[i]
             system_matches == identify_input_file(s, input)
         IN  [ k \in 1..Len(system_matches) |->
                 [ system |-> s, match |-> system_matches[k] ] ]
             \o PoolFrom(i + 1, input)

\* list.sort(key = confidence): ascending and stable. Insert x behind every element whose
\* key is not greater than x's.
RECURSIVE InsertByConfidence(_, _)
InsertByConfidence(sorted, x) ==
    IF sorted = << >>
    THEN << x >>
    ELSE IF sorted[1].match.confidence <= x.match.confidence
         THEN << sorted[1] >> \o InsertByConfidence(Tail(sorted), x)
         ELSE << x >> \o sorted

RECURSIVE SortByConfidence(_)
SortByConfidence(seq) ==
    IF seq = << >>
    THEN << >>
    ELSE InsertByConfidence(SortByConfidence(SubSeq(seq, 1, Len(seq) - 1)), seq[Len(seq)])

\* identify_file: the entry taken from the pool, matches[0] after matches.sort(...).
TakenMatch(pool) == SortByConfidence(pool)[1]

\* The test with "or" in the place of "and".
MatchAccepted_Or(match) ==
    match.file_format_id # FILEFORMAT_UNKNOWN \/ match.confidence # MATCH_NONE

\* identify_file: the test that lets the taken match become the result.
MatchAccepted(match) ==
    match.file_format_id # FILEFORMAT_UNKNOWN /\ match.confidence # MATCH_NONE

\* identify_file: the (file_info, result) it returns for the taken entry.
IdentifyResult(entry, procs) ==
    [ file_info |-> FileInfoInit(entry.system, None),
      result |-> [ processor |-> procs[entry.system],
                   platform |-> entry.match.platform_id,
                   filetype |-> entry.match.file_format_id,
                   endian |-> SystemEndian[entry.system] ] ]

\* identify_file(input_file, file_name)
Identify ==
    /\ LET pool == PoolFrom(1, input_file.identify)
       IN  /\ matches' = pool
           /\ selected' = IF Len(pool) > 0 THEN Some(TakenMatch(pool)) ELSE None
           /\ identified' = IF Len(pool) > 0 /\ MatchAccepted(TakenMatch(pool).match)
                            THEN Some(IdentifyResult(TakenMatch(pool), processor_id))
                            ELSE None
    /\ last_call' = "identify_file"
    /\ UNCHANGED << input_file, segVars, loadVars, processor_id, relocVars, flagVars >>

(***************************************************************************)
(* load_file and the handlers' load_input_file                             *)
(***************************************************************************)
NonBinarySystems == Systems \ { "binary" }

\* The add_segment call a format module makes while it reads a file.
AddedSegment == [ type |-> SEGMENT_TYPE_CODE, file_offset |-> 0, data_length |-> 2, length |-> 3 ]

\* What the input file makes a format module's load_input_file do: the add_segment calls
\* it makes on the FileInfo it is given, and whether it then accepts the file.
LoadAnswerChoices ==
    { [ ok |-> FALSE, added |-> << >> ],
      [ ok |-> FALSE, added |-> << AddedSegment >> ],
      [ ok |-> TRUE, added |-> << AddedSegment >> ] }

LoadAnswers == [ NonBinarySystems -> LoadAnswerChoices ]

\* The answers of a file every format module rejects at once.
NoLoadAnswers == [ s \in NonBinarySystems |-> [ ok |-> FALSE, added |-> << >> ] ]

\* Lengths in bytes of the input files.
FileSizes == { 3, 1024 }

RECURSIVE AddAll(_, _)
AddAll(fi, added) ==
    IF added = << >>
    THEN fi
    ELSE AddAll(add_segment(fi, added[1].type, added[1].file_offset, added[1].data_length,
                            added[1].length, << >>, << >>),
                Tail(added))

\* amiga.System.load_input_file: delegates to hunkfile.load_input_file.
AmigaLoad(fi, answer, procs) ==
    [ ok |-> answer.ok, file_info |-> AddAll(fi, answer.added), processor_id |-> procs ]

\* human68k.System.load_input_file: delegates to xfile.load_input_file.
Human68kLoad(fi, answer, procs) ==
    [ ok |-> answer.ok, file_info |-> AddAll(fi, answer.added), processor_id |-> procs ]

\* zxspectrum.System.load_input_file: delegates to z80file.load_input_file.
ZxSpectrumLoad(fi, answer, procs) ==
    [ ok |-> answer.ok, file_info |-> AddAll(fi, answer.added), processor_id |-> procs ]

\* atarist.System.load_input_file
AtariStLoad(fi, answer, procs) ==
    [ ok |-> answer.ok, file_info |-> AddAll(fi, answer.added), processor_id |-> procs ]

\* snes.System.load_input_file
SnesLoad(fi, answer, procs) ==
    [ ok |-> answer.ok, file_info |-> AddAll(fi, answer.added), processor_id |-> procs ]

\* The guard without the test of is_binary_file.
BinaryRequested_AnyOptions(fi) == fi.loader_options # None

\* binary.System.load_input_file: the guard on the loader options.
BinaryRequested(fi) ==
    ~ (fi.loader_options = None \/ ~ fi.loader_options[1].is_binary_file)

\* binary.System.load_input_file registering its segment through add_segment as DATA.
BinaryLoad_DataSegment(fi, f_length, size, procs) ==
    IF fi.loader_options = None \/ ~ fi.loader_options[1].is_binary_file
    THEN [ ok |-> FALSE, file_info |-> fi, processor_id |-> procs ]
    ELSE LET file_size == IF f_length = None THEN size ELSE f_length[1]
         IN  [ ok |-> TRUE,
               file_info |-> add_segment(fi, SEGMENT_TYPE_DATA, 0, file_size, file_size,
                                         << >>, << >>),
               processor_id |-> [ procs EXCEPT !["binary"] = fi.loader_options[1].processor_id ] ]

\* binary.System.load_input_file
BinaryLoad(fi, f_length, size, procs) ==
    IF ~ BinaryRequested(fi)
    THEN [ ok |-> FALSE, file_info |-> fi, processor_id |-> procs ]
    ELSE LET file_size == IF f_length = None THEN size ELSE f_length[1]
         IN  [ ok |-> TRUE,
               file_info |-> add_code_segment(fi, 0, file_size, file_size, << >>, << >>),
               processor_id |-> [ procs EXCEPT !["binary"] = fi.loader_options[1].processor_id ] ]

\* system.load_input_file(input_file, file_info, data_types, f_offset, f_length)
load_input_file(s, fi, input, f_length, procs) ==
    CASE s = "amiga"      -> AmigaLoad(fi, input.load[s], procs)
      [] s = "atarist"    -> AtariStLoad(fi, input.load[s], procs)
      [] s = "human68k"   -> Human68kLoad(fi, input.load[s], procs)
      [] s = "binary"     -> BinaryLoad(fi, f_length, input.size, procs)
      [] s = "snes"       -> SnesLoad(fi, input.load[s], procs)
      [] s = "zxspectrum" -> ZxSpectrumLoad(fi, input.load[s], procs)

\* load_file: the FileInfo handed to the handler registered under s.
HandlerFileInfo(s, loader_options) == FileInfoInit(s, loader_options)

\* The loop without its return on success.
AskNext_Always(ok) == TRUE

\* load_file: whether the loop goes on to the next handler after this answer.
AskNext(ok) == ~ ok

\* load_file: the loop over systems_by_name from the i-th registered system on. log is what
\* the handlers asked so far were given and did.
RECURSIVE LoadFrom(_, _, _, _, _, _)
LoadFrom(i, input, loader_options, f_length, procs, log) ==
    IF i > Len(SystemNames)
    THEN [ asked |-> log, returned |-> None, processor_id |-> procs ]
    ELSE LET s == SystemNames[i]
             r == load_input_file(s, HandlerFileInfo(s, loader_options), input, f_length, procs)
             log2 == Append(log, [ system |-> s, ok |-> r.ok, file_info |-> r.file_info ])
         IN  IF AskNext(r.ok)
             THEN LoadFrom(i + 1, input, loader_options, f_length, r.processor_id, log2)
             ELSE [ asked |-> log2, returned |-> Some(r.file_info),
                    processor_id |-> r.processor_id ]

\* The loader options and the file_length argument load_file is called with.
LoadOptionChoices ==
    { None,
      Some(LoaderOptions(TRUE, PROCESSOR_M68000, 4096, 0)),
      Some(LoaderOptions(TRUE, PROCESSOR_Z80, 0, 0)),
      Some(LoaderOptions(FALSE, PROCESSOR_M68000, 4096, 0)) }

FileLengthChoices == { None, Some(2) }

\* load_file(input_file, file_name, loader_options, file_offset, file_length)
Load ==
    /\ \E opts \in LoadOptionChoices, f_length \in FileLengthChoices :
          LET r == LoadFrom(1, input_file, opts, f_length, processor_id, << >>)
          IN  /\ load_args' = Some([ loader_options |-> opts, file_length |-> f_length ])
              /\ asked' = r.asked
              /\ returned' = r.returned
              /\ processor_id' = r.processor_id
    /\ last_call' = "load_file"
    /\ UNCHANGED << input_file, segVars, identVars, relocVars, flagVars >>

\* SpecIdentify: identify_file on every combination of identify answers.
IdentifyInit ==
    /\ file_info = FileInfoInit("amiga", None)
    /\ \E a \in IdentifyAnswers :
          input_file = [ identify |-> a, load |-> NoLoadAnswers, size |-> 3 ]
    /\ last_call = "none"
    /\ matches = << >> /\ selected = None /\ identified = None
    /\ LoadIdle /\ RelocIdle /\ FlagIdle
    /\ processor_id = InitialProcessorId

IdentifyNext == Identify

SpecIdentify == IdentifyInit /\ [][IdentifyNext]_vars

\* SpecLoader: load_file and identify_file on every combination of load answers and sizes,
\* for a file no format module recognises and a file hunkfile and z80file both recognise.
LoaderIdentifyAnswers ==
    { NoIdentifyAnswers,
      [ NoIdentifyAnswers EXCEPT
          !.amiga = MatchResult(MATCH_CERTAIN, PLATFORM_AMIGA, AMIGA_HUNK_EXECUTABLE),
          !.zxspectrum = MatchResult(MATCH_POSSIBLE, PLATFORM_ZXSPECTRUM, ZXSPECTRUM_Z80_1) ] }

LoaderInit ==
    /\ file_info = FileInfoInit("amiga", None)
    /\ \E a \in LoaderIdentifyAnswers, l \in LoadAnswers, n \in FileSizes :
          input_file = [ identify |-> a, load |-> l, size |-> n ]
    /\ last_call = "none"
    /\ matches = << >> /\ selected = None /\ identified = None
    /\ LoadIdle /\ RelocIdle /\ FlagIdle
    /\ processor_id = InitialProcessorId

LoaderNext == Identify \/ Load

SpecLoader == LoaderInit /\ [][LoaderNext]_vars


(***************************************************************************)
(* DataTypes: the 32-bit codec (loaderlib/__init__.py)                     *)
(*                                                                         *)
(* A 32-bit quantity and the sums formed from it are kept as two 16-bit    *)
(* halves [hi, lo] with 0 <= lo < 2^16; hi is not reduced, so a sum that   *)
(* needs more than 32 bits shows as hi >= 2^16. Segment addresses, offsets *)
(* and the referring addresses are plain integers.                         *)
(***************************************************************************)
Radix8 == 256
Radix16 == Radix8 * Radix8

\* Python's sequence[start:stop] for a sequence of length n: the first index taken and
\* the index after the last, both 0-based, after the clamping Python does.
SliceBound(n, i) == IF i < 0 THEN (IF n + i < 0 THEN 0 ELSE n + i) ELSE (IF i > n THEN n ELSE i)

PySlice(seq, start, stop) ==
    SubSeq(seq, SliceBound(Len(seq), start) + 1, SliceBound(Len(seq), stop))

\* uint32 unpacking big-endian whatever the endianness of the file.
uint32_AlwaysBig(s, endian_id) ==
    [ hi |-> s[1] * Radix8 + s[2], lo |-> s[3] * Radix8 + s[4] ]

\* DataTypes.uint32: struct.unpack(">I", s) or struct.unpack("<I", s) of exactly 4 bytes.
uint32(s, endian_id) ==
    IF endian_id = ENDIAN_BIG
    THEN [ hi |-> s[1] * Radix8 + s[2], lo |-> s[3] * Radix8 + s[4] ]
    ELSE [ hi |-> s[4] * Radix8 + s[3], lo |-> s[2] * Radix8 + s[1] ]

\* DataTypes.uint32_value(bytes, idx): None when unpacking raises (the slice is not 4 bytes).
uint32_value(bytes, idx, endian_id) ==
    LET slice == PySlice(bytes, idx, idx + 4)
    IN  IF Len(slice) = 4 THEN Some(uint32(slice, endian_id)) ELSE None

\* uint32_value_as_string packing big-endian whatever the endianness of the file.
uint32_value_as_string_AlwaysBig(v, endian_id) ==
    IF v.hi < 0 \/ v.hi >= Radix16
    THEN None
    ELSE Some(<< v.hi \div Radix8, v.hi % Radix8, v.lo \div Radix8, v.lo % Radix8 >>)

\* DataTypes.uint32_value_as_string(v): struct.pack(">I", v) or struct.pack("<I", v); None
\* stands for the struct.error raised for a value outside 0..2^32-1.
uint32_value_as_string(v, endian_id) ==
    IF v.hi < 0 \/ v.hi >= Radix16
    THEN None
    ELSE IF endian_id = ENDIAN_BIG
         THEN Some(<< v.hi \div Radix8, v.hi % Radix8, v.lo \div Radix8, v.lo % Radix8 >>)
         ELSE Some(<< v.lo % Radix8, v.lo \div Radix8, v.hi % Radix8, v.hi \div Radix8 >>)

\* value + target_address, for a decoded value and a non-negative integer address.
AddAddress(value, target_address) ==
    [ hi |-> value.hi + ((value.lo + target_address) \div Radix16),
      lo |-> (value.lo + target_address) % Radix16 ]

(***************************************************************************)
(* relocate_segment_data (loaderlib/__init__.py)                           *)
(***************************************************************************)
\* relocated_addresses.setdefault(address, set()).add(referrer)
DictAdd(d, address, referrer) ==
    [ a \in (DOMAIN d) \cup { address } |->
        IF a \in DOMAIN d
        THEN (IF a = address THEN d[a] \cup { referrer } ELSE d[a])
        ELSE { referrer } ]

\* The slice assignment leaving the data as it was.
AssignSlice_Unchanged(data, local_offset, packed) == data

\* data[local_offset:local_offset+4] = packed, for a slice of 4 bytes.
AssignSlice(data, local_offset, packed) ==
    LET first == SliceBound(Len(data), local_offset)
    IN  [ k \in 1..Len(data) |->
            IF k > first /\ k <= first + 4 THEN packed[k - first] ELSE data[k] ]

\* The body of the innermost loop, for one local_offset. st holds the segments, the two
\* address collections and whether an exception has ended the pass.
RelocateOffset(st, endian_id, segment_id, target_segment_id, local_offset) ==
    IF st.raised
    THEN st
    ELSE
    LET data == get_segment_data(st.segments, segment_id)
        local_address == get_segment_address(st.segments, segment_id)
        target_address == get_segment_address(st.segments, target_segment_id)
    IN  IF data = None
        THEN [ st EXCEPT !.raised = TRUE ]
        ELSE
        LET value == uint32_value(PySlice(data[1], local_offset, local_offset + 4), 0, endian_id)
        IN  IF value = None
            THEN [ st EXCEPT !.raised = TRUE ]
            ELSE
            LET address == AddAddress(value[1], target_address)
                noted == [ st EXCEPT
                             !.relocated = DictAdd(@, address, local_address + local_offset),
                             !.relocatable = @ \cup { local_address + local_offset } ]
                packed == uint32_value_as_string(address, endian_id)
            IN  IF packed = None
                THEN [ noted EXCEPT !.raised = TRUE ]
                ELSE [ noted EXCEPT
                         !.segments[segment_id + 1].cached_data =
                             Some(AssignSlice(data[1], local_offset, packed[1])) ]

\* for local_offset in local_offsets
RECURSIVE RelocateOffsets(_, _, _, _, _)
RelocateOffsets(st, endian_id, segment_id, target_segment_id, local_offsets) ==
    IF local_offsets = << >>
    THEN st
    ELSE RelocateOffsets(
            RelocateOffset(st, endian_id, segment_id, target_segment_id, local_offsets[1]),
            endian_id, segment_id, target_segment_id, Tail(local_offsets))

\* for target_segment_id, local_offsets in relocations[segment_id]
RECURSIVE RelocateEntries(_, _, _, _)
RelocateEntries(st, endian_id, segment_id, entries) ==
    IF entries = << >>
    THEN st
    ELSE RelocateEntries(
            RelocateOffsets(st, endian_id, segment_id, entries[1].target, entries[1].offsets),
            endian_id, segment_id, Tail(entries))

\* for segment_id in range(len(segments)), from segment_id on
RECURSIVE RelocateSegments(_, _, _, _)
RelocateSegments(st, endian_id, relocations, segment_id) ==
    IF segment_id >= Len(st.segments)
    THEN st
    ELSE RelocateSegments(
            RelocateEntries(st, endian_id, segment_id, relocations[segment_id + 1]),
            endian_id, relocations, segment_id + 1)

\* relocate_segment_data(segments, data_types, relocations, relocatable_addresses,
\* relocated_addresses)
relocate_segment_data(segments, endian_id, relocations, relocatable, relocated) ==
    RelocateSegments([ segments |-> segments, relocatable |-> relocatable,
                       relocated |-> relocated, raised |-> FALSE ],
                     endian_id, relocations, 0)

\* The assignment made to every segment.
SetCachedData_EverySegment(fi, segment_id, data) ==
    [ fi EXCEPT !.segments = [ i \in 1..Len(fi.segments) |->
                                 [ fi.segments[i] EXCEPT !.cached_data = data ] ] ]

\* cache_segment_data: the assignment segments[segment_id].cached_data = data.
SetCachedData(fi, segment_id, data) ==
    [ fi EXCEPT !.segments[segment_id + 1].cached_data = data ]

(***************************************************************************)
(* SpecReloc: relocation passes over a loaded and cached two-segment file. *)
(***************************************************************************)
MaxRelocRuns == 2
MaxOffsets == 2

\* The longwords the segment data is made of.
DataWords ==
    { << 0, 0, 0, 0 >>, << 0, 0, 0, 255 >>, << 255, 255, 224, 0 >>, << 255, 255, 255, 255 >> }

Segment0Data == { a \o b : a \in DataWords, b \in DataWords }
Segment1Data == << 0, 0, 0, 255 >>

\* The offset lists of a relocation entry of segment 0: up to MaxOffsets offsets, in and
\* partly out of the data.
RelocOffsets == 0..7

RECURSIVE OffsetLists(_)
OffsetLists(n) ==
    IF n = 0
    THEN { << >> }
    ELSE { << >> } \cup { << a >> \o l : a \in RelocOffsets, l \in OffsetLists(n - 1) }

\* The relocation tables of the two segments.
Segment0Relocations ==
    { << >> } \cup
    { << [ target |-> t, offsets |-> l ] >> : t \in { 0, 1 }, l \in OffsetLists(MaxOffsets) \ { << >> } }

Segment1Relocations ==
    { << >>, << [ target |-> 0, offsets |-> << 0 >> ] >>, << [ target |-> 1, offsets |-> << 0 >> ] >> }

RelocOptionChoices == { None, Some(LoaderOptions(TRUE, PROCESSOR_M68000, 4096, 0)) }

\* The FileInfo a handler builds for such a file, with the data of both segments cached.
LoadedFileInfo(opts, data0, rel0, rel1) ==
    LET fi1 == add_segment(FileInfoInit("amiga", opts), SEGMENT_TYPE_CODE, 0,
                           Len(data0), Len(data0), rel0, << >>)
        fi2 == add_segment(fi1, SEGMENT_TYPE_DATA, Len(data0),
                           Len(Segment1Data), Len(Segment1Data), rel1, << >>)
    IN  SetCachedData(SetCachedData(fi2, 0, Some(data0)), 1, Some(Segment1Data))

RelocInit ==
    /\ \E opts \in RelocOptionChoices, data0 \in Segment0Data,
          rel0 \in Segment0Relocations, rel1 \in Segment1Relocations :
          /\ file_info = LoadedFileInfo(opts, data0, rel0, rel1)
          /\ loaded_segments = file_info.segments
    /\ data_types_endian \in { ENDIAN_BIG, ENDIAN_LITTLE }
    /\ relocatable_addresses = {}
    /\ relocated_addresses = EmptyDict
    /\ reloc_status = "none"
    /\ reloc_runs = 0
    /\ program_state = STATE_LOADING
    /\ load_step = "cached"
    /\ cache_status = "returned"
    /\ IdentIdle /\ LoadIdle /\ FlagIdle
    /\ processor_id = InitialProcessorId

\* One call of relocate_segment_data on the file's segments and address collections.
RelocateSegmentData ==
    /\ reloc_runs < MaxRelocRuns
    /\ LET st == relocate_segment_data(file_info.segments, data_types_endian,
                                       file_info.relocations_by_segment_id,
                                       relocatable_addresses, relocated_addresses)
       IN  /\ file_info' = [ file_info EXCEPT !.segments = st.segments ]
           /\ relocatable_addresses' = st.relocatable
           /\ relocated_addresses' = st.relocated
           /\ reloc_status' = IF st.raised THEN "raised" ELSE "ok"
    /\ reloc_runs' = reloc_runs + 1
    /\ UNCHANGED << callVars, identVars, loadVars, processor_id, data_types_endian,
                    loaded_segments, program_state, load_step, cache_status, flagVars >>

RelocNext == RelocateSegmentData

SpecReloc == RelocInit /\ [][RelocNext]_vars

(***************************************************************************)
(* SpecFramework: the load of one file by the framework around loaderlib:   *)
(* load_file, cache_segment_data for every segment, the relocation pass,    *)
(* then ProgramData.state LOADING -> LOADED. The sequence of the steps is   *)
(* the framework's; the steps themselves are the loaderlib functions.       *)
(***************************************************************************)
\* cache_segment_data storing what a short read got.
cache_segment_data_Partial(file_bytes, segments, segment_id, base_file_offset) ==
    LET file_offset == segments[segment_id + 1].file_offset
        file_length == segments[segment_id + 1].data_length
        start == base_file_offset + file_offset
        file_data == SubSeq(file_bytes, start + 1,
                            IF start + file_length > Len(file_bytes)
                            THEN Len(file_bytes) ELSE start + file_length)
    IN  [ cached_data |-> IF file_offset # -1 THEN Some(file_data) ELSE None,
          file_ops |-> IF file_offset # -1
                       THEN << [ op |-> "seek", at |-> start ],
                               [ op |-> "readinto", size |-> file_length ] >>
                       ELSE << >>,
          raised |-> FALSE ]

\* cache_segment_data(input_file, segments, segment_id, base_file_offset): the new
\* cached_data of the segment and whether the call raised. file_bytes is the content of
\* input_file.
cache_segment_data(file_bytes, segments, segment_id, base_file_offset) ==
    LET file_offset == segments[segment_id + 1].file_offset
        file_length == segments[segment_id + 1].data_length
        start == base_file_offset + file_offset
        file_data == SubSeq(file_bytes, start + 1,
                            IF start + file_length > Len(file_bytes)
                            THEN Len(file_bytes) ELSE start + file_length)
    IN  [ cached_data |-> IF file_offset # -1 /\ Len(file_data) = file_length
                          THEN Some(file_data)
                          ELSE None,
          \* the file is sought and read only for a segment that has file data
          file_ops |-> IF file_offset # -1
                       THEN << [ op |-> "seek", at |-> start ],
                               [ op |-> "readinto", size |-> file_length ] >>
                       ELSE << >>,
          \* a short read is logged (logger.error); the function returns as for a full read
          raised |-> FALSE ]

\* The files loaded: two segments, one offset at most in a relocation entry, complete
\* or cut short after the first segment.
FrameworkRelocations ==
    { << >> } \cup
    { << [ target |-> t, offsets |-> << a >> ] >> : t \in { 0, 1 }, a \in RelocOffsets }

FrameworkFiles ==
    [ options : RelocOptionChoices, data0 : Segment0Data, truncated : BOOLEAN,
      rel0 : FrameworkRelocations, rel1 : Segment1Relocations ]

FileBytes(f) == IF f.truncated THEN f.data0 ELSE f.data0 \o Segment1Data

\* The FileInfo the handler builds for the file in load_file: no data cached yet.
HandlerBuiltFileInfo(f) ==
    LET fi1 == add_segment(FileInfoInit("amiga", f.options), SEGMENT_TYPE_CODE, 0,
                           Len(f.data0), Len(f.data0), f.rel0, << >>)
    IN  add_segment(fi1, SEGMENT_TYPE_DATA, Len(f.data0),
                    Len(Segment1Data), Len(Segment1Data), f.rel1, << >>)

RECURSIVE CacheAll(_, _, _)
CacheAll(fi, file_bytes, segment_id) ==
    IF segment_id >= Len(fi.segments)
    THEN fi
    ELSE CacheAll(SetCachedData(fi, segment_id,
                                cache_segment_data(file_bytes, fi.segments, segment_id, 0).cached_data),
                  file_bytes, segment_id + 1)

\* Whether one of the cache_segment_data calls of the load raised.
CacheRaised(fi, file_bytes) ==
    \E segment_id \in 0..(Len(fi.segments) - 1) :
        cache_segment_data(file_bytes, fi.segments, segment_id, 0).raised

\* The relocation pass runs over segment data that was cached and not yet relocated.
RelocationDue_AnyCachedData(step) == step \in { "cached", "relocated", "done" }

RelocationDue(step) == step = "cached"

FrameworkInit ==
    /\ input_file \in FrameworkFiles
    /\ last_call = "none"
    /\ matches = << >> /\ selected = None /\ identified = None
    /\ file_info = FileInfoInit("amiga", None)
    /\ data_types_endian \in { ENDIAN_BIG, ENDIAN_LITTLE }
    /\ relocatable_addresses = {}
    /\ relocated_addresses = EmptyDict
    /\ reloc_status = "none"
    /\ reloc_runs = 0
    /\ loaded_segments = << >>
    /\ program_state = STATE_LOADING
    /\ load_step = "idle"
    /\ cache_status = "none"
    /\ LoadIdle /\ FlagIdle
    /\ processor_id = InitialProcessorId

\* A load begins, also after an earlier one has ended: a new ProgramData (state LOADING,
\* empty relocation collections) and the FileInfo load_file returns.
BeginLoad ==
    /\ load_step \in { "idle", "done", "failed" }
    /\ file_info' = HandlerBuiltFileInfo(input_file)
    /\ loaded_segments' = file_info'.segments
    /\ program_state' = STATE_LOADING
    /\ relocatable_addresses' = {}
    /\ relocated_addresses' = EmptyDict
    /\ reloc_status' = "none"
    /\ reloc_runs' = 0
    /\ cache_status' = "none"
    /\ load_step' = "loaded"
    /\ last_call' = "load_file"
    /\ UNCHANGED << input_file, identVars, loadVars, processor_id, data_types_endian, flagVars >>

\* cache_segment_data for every segment; a segment whose data could not be read ends the load.
CacheSegmentData ==
    /\ load_step = "loaded"
    /\ file_info' = CacheAll(file_info, FileBytes(input_file), 0)
    /\ loaded_segments' = file_info'.segments
    /\ load_step' = IF \E i \in 1..Len(file_info'.segments) :
                          file_info'.segments[i].cached_data = None
                    THEN "failed" ELSE "cached"
    /\ cache_status' = IF CacheRaised(file_info, FileBytes(input_file))
                       THEN "raised" ELSE "returned"
    /\ last_call' = "cache_segment_data"
    /\ UNCHANGED << input_file, identVars, loadVars, processor_id, data_types_endian,
                    relocatable_addresses, relocated_addresses, reloc_status, reloc_runs,
                    program_state, flagVars >>

\* The relocation pass of the load.
RelocateLoadedFile ==
    /\ RelocationDue(load_step)
    /\ LET st == relocate_segment_data(file_info.segments, data_types_endian,
                                       file_info.relocations_by_segment_id,
                                       relocatable_addresses, relocated_addresses)
       IN  /\ file_info' = [ file_info EXCEPT !.segments = st.segments ]
           /\ relocatable_addresses' = st.relocatable
           /\ relocated_addresses' = st.relocated
           /\ reloc_status' = IF st.raised THEN "raised" ELSE "ok"
           /\ load_step' = IF st.raised THEN "failed" ELSE "relocated"
    /\ reloc_runs' = reloc_runs + 1
    /\ last_call' = "relocate_segment_data"
    /\ UNCHANGED << input_file, identVars, loadVars, processor_id, data_types_endian,
                    loaded_segments, program_state, cache_status, flagVars >>

\* Loading and relocation have succeeded: LOADING -> LOADED.
FinishLoad ==
    /\ load_step = "relocated"
    /\ program_state' = program_data_set_state(program_state, STATE_LOADED)
    /\ load_step' = "done"
    /\ last_call' = "program_data_set_state"
    /\ UNCHANGED << input_file, segVars, identVars, loadVars, processor_id, data_types_endian,
                    relocatable_addresses, relocated_addresses, reloc_status, reloc_runs,
                    loaded_segments, cache_status, flagVars >>

FrameworkNext == BeginLoad \/ CacheSegmentData \/ RelocateLoadedFile \/ FinishLoad

SpecFramework == FrameworkInit /\ [][FrameworkNext]_vars

(***************************************************************************)
(* Block flags (loaderlib/constants.py, disassembly_data.py)               *)
(***************************************************************************)
\* Python's v >> n and v << n for v >= 0.
RECURSIVE Pow2(_)
Pow2(n) == IF n = 0 THEN 1 ELSE 2 * Pow2(n - 1)

ShiftRight(v, n) == v \div Pow2(n)
ShiftLeft(v, n) == v * Pow2(n)

\* Python's a & b and a | b for a, b >= 0.
RECURSIVE BitAnd(_, _)
BitAnd(a, b) ==
    IF a = 0 \/ b = 0
    THEN 0
    ELSE (a % 2) * (b % 2) + 2 * BitAnd(a \div 2, b \div 2)

RECURSIVE BitOr(_, _)
BitOr(a, b) ==
    IF a = 0 THEN b
    ELSE IF b = 0 THEN a
    ELSE (IF a % 2 = 1 \/ b % 2 = 1 THEN 1 ELSE 0) + 2 * BitOr(a \div 2, b \div 2)

\* Python's a & ~m for a, m >= 0: a with the bits of m cleared.
BitAndNot(a, m) == a - BitAnd(a, m)

\* _count_bits counting the bits that are set rather than the bits needed.
RECURSIVE count_bits_SetBits(_)
count_bits_SetBits(v) == IF v = 0 THEN 0 ELSE (v % 2) + count_bits_SetBits(ShiftRight(v, 1))

\* constants._count_bits
RECURSIVE count_bits(_)
count_bits(v) == IF v = 0 THEN 0 ELSE 1 + count_bits(ShiftRight(v, 1))

\* constants._make_bitmask
RECURSIVE make_bitmask(_)
make_bitmask(bitcount) ==
    IF bitcount = 0
    THEN 0
    ELSE BitOr(make_bitmask(bitcount - 1), ShiftLeft(1, bitcount - 1))

DATA_TYPE_BIT0 == DATA_TYPE_CODE - 1
DATA_TYPE_BITCOUNT == count_bits(DATA_TYPE_DATA32)
DATA_TYPE_BITMASK == make_bitmask(DATA_TYPE_BITCOUNT)

BLOCK_FLAG_ALLOC == ShiftLeft(1, DATA_TYPE_BITCOUNT + 0)
BLOCK_FLAG_PROCESSED == ShiftLeft(1, DATA_TYPE_BITCOUNT + 1)
BLOCK_SPLIT_BITMASK == BitOr(BitOr(BLOCK_FLAG_ALLOC, DATA_TYPE_BITMASK), BLOCK_FLAG_PROCESSED)

\* disassembly_data.get_block_flags_data_type
get_block_flags_data_type(flags) == BitAnd(ShiftRight(flags, DATA_TYPE_BIT0), DATA_TYPE_BITMASK)

\* disassembly_data.get_data_type_block_flags
get_data_type_block_flags(data_type) ==
    ShiftLeft(BitAnd(data_type, DATA_TYPE_BITMASK), DATA_TYPE_BIT0)

\* disassembly_data.get_block_data_type
get_block_data_type(flags) == get_block_flags_data_type(flags)

\* set_block_data_type without the statement that clears the old data-type bits.
set_block_data_type_NoClear(flags, data_type) ==
    BitOr(flags, get_data_type_block_flags(data_type))

\* set_block_data_type clearing every bit of BLOCK_SPLIT_BITMASK instead of the data-type field.
set_block_data_type_ClearsSplitMask(flags, data_type) ==
    BitOr(BitAndNot(flags, BLOCK_SPLIT_BITMASK), get_data_type_block_flags(data_type))

\* disassembly_data.set_block_data_type: the new value of block.flags.
set_block_data_type(flags, data_type) ==
    BitOr(BitAndNot(flags, ShiftLeft(DATA_TYPE_BITMASK, DATA_TYPE_BIT0)),
          get_data_type_block_flags(data_type))

(***************************************************************************)
(* SpecFlags: one block, any flags, data types set and read.               *)
(***************************************************************************)
FlagBits == 7
MaxTag == 8

SupportedTags ==
    { DATA_TYPE_CODE, DATA_TYPE_ASCII, DATA_TYPE_DATA08, DATA_TYPE_DATA16, DATA_TYPE_DATA32 }

FlagsInit ==
    /\ block_flags \in 0..(Pow2(FlagBits) - 1)
    /\ flags_before = block_flags
    /\ tag_set = None
    /\ tag_got = None
    /\ BlockIdle
    /\ file_info = FileInfoInit("amiga", None)
    /\ IdentIdle /\ LoadIdle /\ RelocIdle
    /\ processor_id = InitialProcessorId

\* set_block_data_type(block, data_type), then get_block_data_type(block).
SetBlockDataType ==
    /\ \E data_type \in 0..MaxTag :
          /\ tag_set' = Some(data_type)
          /\ block_flags' = set_block_data_type(block_flags, data_type)
    /\ flags_before' = block_flags
    /\ tag_got' = Some(get_block_data_type(block_flags'))
    /\ last_call' = "set_block_data_type"
    /\ UNCHANGED << segVars, input_file, identVars, loadVars, processor_id, relocVars,
                    blockVars, codecVars, uiVars >>

\* get_block_data_type(block) on its own.
GetBlockDataType ==
    /\ tag_got' = Some(get_block_data_type(block_flags))
    /\ last_call' = "get_block_data_type"
    /\ UNCHANGED << segVars, input_file, identVars, loadVars, processor_id, relocVars,
                    block_flags, flags_before, tag_set, blockVars, codecVars, uiVars >>

FlagsNext == SetBlockDataType \/ GetBlockDataType

SpecFlags == FlagsInit /\ [][FlagsNext]_vars

(***************************************************************************)
(* SegmentBlock (disassembly_data.py) and SpecBlocks: blocks constructed     *)
(* fresh, as copies, and as the new piece of a split.                      *)
(***************************************************************************)
\* class SegmentBlock: the class attributes an instance starts from.
SegmentBlockDefaults ==
    [ sequence_id |-> None, segment_id |-> None, segment_offset |-> None, address |-> None,
      length |-> None, flags |-> 0, line_data |-> None, line_count |-> 0, references |-> None ]

\* copy_to leaving the flags of the new block as they were.
copy_to_NoFlags(self, new_block) ==
    [ new_block EXCEPT
        !.sequence_id = self.sequence_id, !.segment_id = self.segment_id,
        !.segment_offset = self.segment_offset, !.address = self.address,
        !.length = self.length, !.line_data = self.line_data,
        !.line_count = self.line_count, !.references = self.references ]

\* SegmentBlock.copy_to(self, new_block): the new block after the call.
copy_to(self, new_block) ==
    [ new_block EXCEPT
        !.sequence_id = self.sequence_id, !.segment_id = self.segment_id,
        !.segment_offset = self.segment_offset, !.address = self.address,
        !.length = self.length, !.flags = self.flags, !.line_data = self.line_data,
        !.line_count = self.line_count, !.references = self.references ]

\* SegmentBlock.__init__ numbering only the blocks that are not copies.
SegmentBlockInit_KeepsCopiedId(copy_block, last) ==
    IF copy_block # None
    THEN [ block |-> copy_to(copy_block[1], SegmentBlockDefaults), last_sequence_id |-> last ]
    ELSE [ block |-> [ SegmentBlockDefaults EXCEPT !.sequence_id = Some(last + 1) ],
           last_sequence_id |-> last + 1 ]

\* SegmentBlock.__init__(copy_block): the constructed block and the new value of
\* SegmentBlock.last_sequence_id. copy_block is None or Some(block).
SegmentBlockInit(copy_block, last) ==
    LET copied == IF copy_block # None
                  THEN copy_to(copy_block[1], SegmentBlockDefaults)
                  ELSE SegmentBlockDefaults
    IN  [ block |-> [ copied EXCEPT !.sequence_id = Some(last + 1) ],
          last_sequence_id |-> last + 1 ]

MaxBlocks == 3

BlockLengths == { 1, 4 }
BlockAddresses == { 0, 4096 }

\* seq with x put in as element number i.
InsertAt(seq, i, x) == SubSeq(seq, 1, i - 1) \o << x >> \o SubSeq(seq, i, Len(seq))

\* The first block of a segment, as loading leaves it: constructed fresh, then given its place
\* and flags.
BlocksInit ==
    /\ \E flags \in 0..(Pow2(FlagBits) - 1), address \in BlockAddresses, length \in BlockLengths :
          blocks = << [ SegmentBlockInit(None, 0).block EXCEPT
                          !.segment_id = Some(0), !.segment_offset = Some(0),
                          !.address = Some(address), !.length = Some(length),
                          !.flags = flags ] >>
    /\ last_sequence_id = SegmentBlockInit(None, 0).last_sequence_id
    /\ block_op = NoBlockOp
    /\ CodecIdle
    /\ block_flags = 0 /\ flags_before = 0 /\ tag_set = None /\ tag_got = None
    /\ file_info = FileInfoInit("amiga", None)
    /\ IdentIdle /\ LoadIdle /\ RelocIdle
    /\ processor_id = InitialProcessorId

\* SegmentBlock()
ConstructBlock ==
    /\ Len(blocks) < MaxBlocks
    /\ LET made == SegmentBlockInit(None, last_sequence_id)
       IN  /\ blocks' = Append(blocks, made.block)
           /\ last_sequence_id' = made.last_sequence_id
           /\ block_op' = [ kind |-> "new", from |-> 0, new |-> Len(blocks) + 1,
                            before |-> << >>, last_before |-> last_sequence_id ]
    /\ UNCHANGED << segVars, callVars, identVars, loadVars, processor_id, relocVars,
                    block_flags, flags_before, tag_set, tag_got, codecVars, uiVars >>

\* SegmentBlock(block)
CopyBlock ==
    /\ Len(blocks) < MaxBlocks
    /\ \E i \in 1..Len(blocks) :
          LET made == SegmentBlockInit(Some(blocks[i]), last_sequence_id)
          IN  /\ blocks' = Append(blocks, made.block)
              /\ last_sequence_id' = made.last_sequence_id
              /\ block_op' = [ kind |-> "copy", from |-> i, new |-> Len(blocks) + 1,
                               before |-> << blocks[i] >>, last_before |-> last_sequence_id ]
    /\ UNCHANGED << segVars, callVars, identVars, loadVars, processor_id, relocVars,
                    block_flags, flags_before, tag_set, tag_got, codecVars, uiVars >>

\* A block is split at an offset inside it: the block keeps the bytes before the offset, the
\* new block is constructed as a copy, keeps the flags of BLOCK_SPLIT_BITMASK and gets the
\* bytes from the offset on; it follows the block in the list.
SplitPiece(block, made, excess_length) ==
    [ made EXCEPT
        !.flags = BitAnd(made.flags, BLOCK_SPLIT_BITMASK),
        !.length = Some(block.length[1] - excess_length),
        !.segment_offset = Some(block.segment_offset[1] + excess_length),
        !.address = Some(block.address[1] + excess_length) ]

SplitBlock ==
    /\ Len(blocks) < MaxBlocks
    /\ \E i \in 1..Len(blocks) :
          /\ blocks[i].length # None /\ blocks[i].address # None
          /\ \E excess_length \in 1..(blocks[i].length[1] - 1) :
                LET made == SegmentBlockInit(Some(blocks[i]), last_sequence_id)
                    kept == [ blocks[i] EXCEPT !.length = Some(excess_length) ]
                IN  /\ blocks' = InsertAt([ blocks EXCEPT ![i] = kept ], i + 1,
                                          SplitPiece(blocks[i], made.block, excess_length))
                    /\ last_sequence_id' = made.last_sequence_id
                    /\ block_op' = [ kind |-> "split", from |-> i, new |-> i + 1,
                                     before |-> << blocks[i] >>,
                                     last_before |-> last_sequence_id ]
    /\ UNCHANGED << segVars, callVars, identVars, loadVars, processor_id, relocVars,
                    block_flags, flags_before, tag_set, tag_got, codecVars, uiVars >>

BlocksNext == ConstructBlock \/ CopyBlock \/ SplitBlock

SpecBlocks == BlocksInit /\ [][BlocksNext]_vars

(***************************************************************************)
(* DataTypes: the sized decoders and sized_value (loaderlib/__init__.py)   *)
(* and SpecCodec: one DataTypes call on arguments drawn with the initial   *)
(* state. Every decoded integer is kept as halves [hi, lo].                *)
(***************************************************************************)
\* What a call did: it returned value (None or Some(v)) or raised error.
Returned(value, bytes) == [ kind |-> "returned", value |-> value, error |-> "", bytes_after |-> bytes ]
Raised(error, bytes) == [ kind |-> "raised", value |-> None, error |-> error, bytes_after |-> bytes ]

\* DataTypes.uint16: struct.unpack(">H", s) or struct.unpack("<H", s) of exactly 2 bytes.
uint16(s, endian_id) ==
    IF endian_id = ENDIAN_BIG
    THEN [ hi |-> 0, lo |-> s[1] * Radix8 + s[2] ]
    ELSE [ hi |-> 0, lo |-> s[2] * Radix8 + s[1] ]

\* DataTypes.uint16_value(bytes, idx): struct.error when the slice is not 2 bytes.
uint16_value(bytes, idx, endian_id) ==
    LET slice == PySlice(bytes, idx, idx + 2)
    IN  IF Len(slice) = 2
        THEN Returned(Some(uint16(slice, endian_id)), bytes)
        ELSE Raised("struct.error", bytes)

\* DataTypes._uint8_value3(bytes, idx): bytes[idx], Python's indexing (a negative idx counts
\* from the end; IndexError outside -len..len-1).
uint8_value(bytes, idx) ==
    IF idx >= Len(bytes) \/ idx < 0 - Len(bytes)
    THEN Raised("IndexError", bytes)
    ELSE Returned(Some([ hi |-> 0, lo |-> bytes[(IF idx < 0 THEN Len(bytes) + idx ELSE idx) + 1] ]),
                  bytes)

\* sized_value sending DATA16 to the 8-bit decoder.
sized_value_Data16As8(data_size, bytes, idx, endian_id) ==
    IF data_size = DATA_TYPE_DATA32
    THEN Returned(uint32_value(bytes, idx, endian_id), bytes)
    ELSE IF data_size = DATA_TYPE_DATA16 \/ data_size = DATA_TYPE_DATA08
    THEN uint8_value(bytes, idx)
    ELSE Raised("unsupported size", bytes)

\* DataTypes.sized_value(data_size, bytes, idx)
sized_value(data_size, bytes, idx, endian_id) ==
    IF data_size = DATA_TYPE_DATA32
    THEN Returned(uint32_value(bytes, idx, endian_id), bytes)
    ELSE IF data_size = DATA_TYPE_DATA16
    THEN uint16_value(bytes, idx, endian_id)
    ELSE IF data_size = DATA_TYPE_DATA08
    THEN uint8_value(bytes, idx)
    ELSE Raised("unsupported size", bytes)

\* The 16-bit halves the encoded values are made of, the ends of the range included.
Halves == { 0, 1, 255, 256, 32767, 32768, 65535 }

Endians == { ENDIAN_UNKNOWN, ENDIAN_BIG, ENDIAN_LITTLE }

\* The buffers decoded from and the offsets asked for: in, partly in, past the end, negative.
CodecBuffers == { << >>, << 7 >>, << 1, 2, 3 >>, << 1, 2, 3, 4, 5, 6 >> }
MaxOffset == 7

EncodeCalls == [ op : { "encode" }, endian_id : Endians, hi : Halves, lo : Halves ]

DecodeCalls ==
    [ op : { "sized_value" }, endian_id : Endians, data_size : 0..MaxTag,
      bytes : CodecBuffers, idx : (0 - MaxOffset)..MaxOffset ]

CodecInit ==
    /\ codec_call \in EncodeCalls \cup DecodeCalls
    /\ codec_result = NoCodecResult
    /\ UiIdle
    /\ blocks = << >> /\ last_sequence_id = 0 /\ block_op = NoBlockOp
    /\ block_flags = 0 /\ flags_before = 0 /\ tag_set = None /\ tag_got = None
    /\ file_info = FileInfoInit("amiga", None)
    /\ IdentIdle /\ LoadIdle /\ RelocIdle
    /\ processor_id = InitialProcessorId

\* uint32_value(uint32_value_as_string(v)): the encoded bytes are kept in bytes_after.
EncodeThenDecode ==
    /\ codec_call.op = "encode" /\ codec_result.kind = "none"
    /\ LET encoded == uint32_value_as_string([ hi |-> codec_call.hi, lo |-> codec_call.lo ],
                                             codec_call.endian_id)
       IN  codec_result' = IF encoded = None
                           THEN Raised("struct.error", << >>)
                           ELSE Returned(uint32_value(encoded[1], 0, codec_call.endian_id),
                                         encoded[1])
    /\ last_call' = "uint32_value"
    /\ UNCHANGED << segVars, input_file, identVars, loadVars, processor_id, relocVars,
                    block_flags, flags_before, tag_set, tag_got, blockVars, codec_call, uiVars >>

\* sized_value(data_size, bytes, idx)
SizedValue ==
    /\ codec_call.op = "sized_value" /\ codec_result.kind = "none"
    /\ codec_result' = sized_value(codec_call.data_size, codec_call.bytes, codec_call.idx,
                                   codec_call.endian_id)
    /\ last_call' = "sized_value"
    /\ UNCHANGED << segVars, input_file, identVars, loadVars, processor_id, relocVars,
                    block_flags, flags_before, tag_set, tag_got, blockVars, codec_call, uiVars >>

CodecNext == EncodeThenDecode \/ SizedValue

SpecCodec == CodecInit /\ [][CodecNext]_vars

(***************************************************************************)
(* Reloading a project without the input file (qtui.py LoadProjectDialog)  *)
(***************************************************************************)
\* The paths the user can enter and what the file system holds there: whether it is a
\* file, its size and the checksum of its content.
FileSystem ==
    [ a   |-> [ isfile |-> TRUE,  size |-> 8,  checksum |-> "s1" ],
      b   |-> [ isfile |-> TRUE,  size |-> 12, checksum |-> "s2" ],
      c   |-> [ isfile |-> TRUE,  size |-> 8,  checksum |-> "s3" ],
      d   |-> [ isfile |-> TRUE,  size |-> 12, checksum |-> "s1" ],
      dir |-> [ isfile |-> FALSE, size |-> 0,  checksum |-> "" ] ]

Paths == DOMAIN FileSystem

\* The size and checksum stored in the projects that are reloaded.
StoredProjects ==
    { [ input_file_filesize |-> 8,  input_file_checksum |-> "s1", loader_file_path |-> None ],
      [ input_file_filesize |-> 12, input_file_checksum |-> "s2", loader_file_path |-> None ] }

\* The validation attempts one dialog is followed through.
MaxAttempts == 3

\* LoadProjectDialog.__init__: the widgets and fields as constructed. valid_file_path is
\* first assigned by _reset_widgets or validate_file_path; it is None here.
LoadProjectDialogInit ==
    [ NoDialog EXCEPT !.result = "open" ]

\* validate_file_path enabling Load on a matching size alone.
validate_file_path_SizeOnly(self, validation_attempt, file_path, options) ==
    IF self.validation_attempt # validation_attempt
    THEN self
    ELSE IF ~ (file_path \in Paths /\ FileSystem[file_path].isfile)
    THEN self
    ELSE LET sized == [ self EXCEPT !.valid_size_checkbox =
                            @ \/ FileSystem[file_path].size = options.input_file_filesize ]
         IN  IF sized.valid_size_checkbox
             THEN [ sized EXCEPT !.load_button = TRUE, !.valid_file_path = Some(file_path) ]
             ELSE sized

\* validate_file_path without the test of validation_attempt.
validate_file_path_AnyAttempt(self, validation_attempt, file_path, options) ==
    IF ~ (file_path \in Paths /\ FileSystem[file_path].isfile)
    THEN self
    ELSE LET sized   == [ self EXCEPT !.valid_size_checkbox =
                            @ \/ FileSystem[file_path].size = options.input_file_filesize ]
             checked == [ sized EXCEPT !.valid_checksum_checkbox =
                            @ \/ FileSystem[file_path].checksum = options.input_file_checksum ]
         IN  IF checked.valid_size_checkbox /\ checked.valid_checksum_checkbox
             THEN [ checked EXCEPT !.load_button = TRUE, !.valid_file_path = Some(file_path) ]
             ELSE checked

\* validate_file_path(validation_attempt, file_path), the closure of LoadProjectDialog.__init__
validate_file_path(self, validation_attempt, file_path, options) ==
    IF self.validation_attempt # validation_attempt
    THEN self
    ELSE IF ~ (file_path \in Paths /\ FileSystem[file_path].isfile)
    THEN self
    ELSE LET sized   == [ self EXCEPT !.valid_size_checkbox =
                            @ \/ FileSystem[file_path].size = options.input_file_filesize ]
             checked == [ sized EXCEPT !.valid_checksum_checkbox =
                            @ \/ FileSystem[file_path].checksum = options.input_file_checksum ]
         IN  IF checked.valid_size_checkbox /\ checked.valid_checksum_checkbox
             THEN [ checked EXCEPT !.load_button = TRUE, !.valid_file_path = Some(file_path) ]
             ELSE checked

\* _reset_widgets()
reset_widgets(self) ==
    [ self EXCEPT !.valid_file_path = None, !.valid_size_checkbox = FALSE,
                  !.valid_checksum_checkbox = FALSE, !.load_button = FALSE ]

\* on_path_lineedit_textChanged(new_text): a new attempt, validated by a timer 2 s later.
on_path_lineedit_textChanged(self, new_text) ==
    IF self.validation_attempt_text # Some(new_text)
    THEN LET reset == reset_widgets(self)
             n     == self.validation_attempt + 1
         IN  [ reset EXCEPT !.validation_attempt_text = Some(new_text),
                            !.validation_attempt = n,
                            !.timers = @ \cup { [ n |-> n, file_path |-> new_text ] } ]
    ELSE self

\* on_path_lineedit_returnPressed(): a new attempt, validated at once.
on_path_lineedit_returnPressed(self, options) ==
    IF self.validation_attempt_text # Some(self.path_lineedit)
    THEN LET reset == reset_widgets(self)
             n     == self.validation_attempt + 1
         IN  validate_file_path([ reset EXCEPT !.validation_attempt_text = Some(self.path_lineedit),
                                               !.validation_attempt = n ],
                                n, self.path_lineedit, options)
    ELSE self

\* Everything but the state of the user interface, ProgramData.state and last_call.
coreVars == << segVars, input_file, identVars, loadVars, processor_id, data_types_endian,
               relocatable_addresses, relocated_addresses, reloc_status, reloc_runs,
               loaded_segments, load_step, cache_status, block_flags, flags_before, tag_set,
               tag_got, blockVars, codecVars >>

ProjectLoadInit ==
    /\ load_options \in StoredProjects
    /\ dialog = LoadProjectDialogInit
    /\ project_load = "none"
    /\ ui_load = NoUiLoad
    /\ AppIdle
    /\ codec_call = [ op |-> "none" ] /\ codec_result = NoCodecResult
    /\ blocks = << >> /\ last_sequence_id = 0 /\ block_op = NoBlockOp
    /\ block_flags = 0 /\ flags_before = 0 /\ tag_set = None /\ tag_got = None
    /\ file_info = FileInfoInit("amiga", None)
    /\ IdentIdle /\ LoadIdle /\ RelocIdle
    /\ processor_id = InitialProcessorId

\* The text of path_lineedit changes (typed, or set by on_path_button_clicked).
TextChanged ==
    /\ dialog.result = "open"
    /\ dialog.validation_attempt < MaxAttempts
    /\ \E new_text \in Paths \cup { "", "missing" } :
          /\ new_text # dialog.path_lineedit
          /\ dialog' = on_path_lineedit_textChanged([ dialog EXCEPT !.path_lineedit = new_text ],
                                                    new_text)
    /\ UNCHANGED << coreVars, appVars, program_state, last_call, load_options, project_load, ui_load >>

ReturnPressed ==
    /\ dialog.result = "open"
    /\ dialog.validation_attempt < MaxAttempts
    /\ dialog' = on_path_lineedit_returnPressed(dialog, load_options)
    /\ UNCHANGED << coreVars, appVars, program_state, last_call, load_options, project_load, ui_load >>

\* A QTimer.singleShot of on_path_lineedit_textChanged fires.
TimerFires ==
    /\ \E t \in dialog.timers :
          dialog' = [ validate_file_path(dialog, t.n, t.file_path, load_options)
                        EXCEPT !.timers = @ \ { t } ]
    /\ UNCHANGED << coreVars, appVars, program_state, last_call, load_options, project_load, ui_load >>

\* load_button.clicked -> LoadProjectDialog.accept()
ClickLoad ==
    /\ dialog.result = "open"
    /\ dialog.load_button
    /\ load_options' = [ load_options EXCEPT !.loader_file_path = dialog.valid_file_path ]
    /\ dialog' = [ dialog EXCEPT !.result = "accepted" ]
    /\ UNCHANGED << coreVars, appVars, program_state, last_call, project_load, ui_load >>

\* cancel_button.clicked -> QDialog.reject()
ClickCancel ==
    /\ dialog.result = "open"
    /\ dialog' = [ dialog EXCEPT !.result = "rejected" ]
    /\ UNCHANGED << coreVars, appVars, program_state, last_call, load_options, project_load, ui_load >>

\* request_load_project_option_values returns load_options whatever the dialog's result
\* was; the project is loaded from loader_file_path, and without one the load fails.
LoadProject ==
    /\ dialog.result \in { "accepted", "rejected" }
    /\ project_load = "none"
    /\ IF load_options.loader_file_path = None
       THEN /\ project_load' = "ValidationFailed"
            /\ UNCHANGED << program_state, last_call >>
       ELSE /\ project_load' = "loaded"
            /\ program_state' = program_data_set_state(program_state, STATE_LOADED)
            /\ last_call' = "program_data_set_state"
    /\ UNCHANGED << coreVars, appVars, dialog, load_options, ui_load >>

ProjectLoadNext ==
    TextChanged \/ ReturnPressed \/ TimerFires \/ ClickLoad \/ ClickCancel \/ LoadProject

SpecProjectLoad == ProjectLoadInit /\ [][ProjectLoadNext]_vars

(***************************************************************************)
(* Opening a file with a progress dialog (qtui.py MainWindow)              *)
(***************************************************************************)
\* The steps a prolonged load is made of (step_count of event_prolonged_action).
MaxSteps == 3

\* attempt_open_file running on_file_opened whatever load_file returned.
attempt_open_file_AlwaysOpens(result, in_loaded_state) ==
    [ on_file_opened |-> TRUE, message_box |-> FALSE ]

\* MainWindow.attempt_open_file after editor_state.load_file returned result: "None"
\* (cancelled), "str" (an error message) or "ok".
attempt_open_file(result, in_loaded_state) ==
    IF result = "None"
    THEN [ on_file_opened |-> FALSE, message_box |-> FALSE ]
    ELSE IF result = "str"
    THEN [ on_file_opened |-> FALSE, message_box |-> TRUE ]
    ELSE IF ~ in_loaded_state
    THEN [ on_file_opened |-> FALSE, message_box |-> FALSE ]
    ELSE [ on_file_opened |-> TRUE, message_box |-> FALSE ]

\* QTUIEditorClient.event_load_successful: whether it runs on_file_opened.
event_load_successful(active_client) == ~ active_client

\* editor_state.in_loaded_state(client)
in_loaded_state(state) == state = STATE_LOADED

UiLoadInit ==
    /\ \E step_count \in 1..MaxSteps, fail_step \in 0..MaxSteps, active_client \in BOOLEAN :
          /\ fail_step <= step_count
          /\ ui_load = [ NoUiLoad EXCEPT !.step_count = step_count, !.fail_step = fail_step,
                                         !.active_client = active_client ]
    /\ dialog = NoDialog /\ load_options = NoLoadOptions /\ project_load = "none"
    /\ AppIdle
    /\ codec_call = [ op |-> "none" ] /\ codec_result = NoCodecResult
    /\ blocks = << >> /\ last_sequence_id = 0 /\ block_op = NoBlockOp
    /\ block_flags = 0 /\ flags_before = 0 /\ tag_set = None /\ tag_got = None
    /\ file_info = FileInfoInit("amiga", None)
    /\ IdentIdle /\ LoadIdle /\ RelocIdle
    /\ processor_id = InitialProcessorId

\* attempt_open_file calls editor_state.load_file: event_load_start, then
\* event_prolonged_action, whose signal runs show_progress_dialog (the dialog is shown and
\* its canceled signal is connected to abort_callback).
LoadStart ==
    /\ ui_load.phase = "idle"
    /\ ui_load' = [ ui_load EXCEPT !.phase = "loading", !.progress_dialog = "shown" ]
    /\ last_call' = "load_file"
    /\ UNCHANGED << coreVars, appVars, program_state, dialog, load_options, project_load >>

\* The user presses Cancel on the progress dialog; the click waits in the event queue.
UserClicksCancel ==
    /\ ui_load.phase = "loading"
    /\ ui_load.progress_dialog = "shown"
    /\ ~ ui_load.cancel_click
    /\ ui_load' = [ ui_load EXCEPT !.cancel_click = TRUE ]
    /\ UNCHANGED << coreVars, appVars, program_state, last_call, dialog, load_options, project_load >>

\* A checkpoint of the load: event_tick (app.processEvents) delivers a waiting click to
\* canceled(), which calls abort_callback; an aborted load unwinds and load_file returns
\* None, a failing step returns an error message, otherwise the step is done and the
\* progress dialog updated.
LoadCheckpoint ==
    /\ ui_load.phase = "loading"
    /\ ui_load.step < ui_load.step_count
    /\ ui_load' =
          IF ui_load.cancel_click
          THEN [ ui_load EXCEPT !.cancel_click = FALSE, !.abort_requested = TRUE,
                                !.step_at_abort = ui_load.step, !.progress_dialog = "hidden",
                                !.phase = "unwound", !.result = "None" ]
          ELSE IF ui_load.fail_step = ui_load.step + 1
          THEN [ ui_load EXCEPT !.progress_dialog = "hidden", !.phase = "unwound",
                                !.result = "str" ]
          ELSE [ ui_load EXCEPT !.step = @ + 1 ]
    /\ UNCHANGED << coreVars, appVars, program_state, last_call, dialog, load_options, project_load >>

\* The last step is done: the state becomes LOADED, event_prolonged_action_complete closes
\* the progress dialog and event_load_successful is sent.
LoadComplete ==
    /\ ui_load.phase = "loading"
    /\ ui_load.step = ui_load.step_count
    /\ program_state' = program_data_set_state(program_state, STATE_LOADED)
    /\ ui_load' = [ ui_load EXCEPT !.phase = "finished", !.result = "ok",
                                   !.progress_dialog = "hidden", !.cancel_click = FALSE,
                                   !.on_file_opened =
                                       IF event_load_successful(ui_load.active_client)
                                       THEN @ + 1 ELSE @ ]
    /\ last_call' = "program_data_set_state"
    /\ UNCHANGED << coreVars, appVars, dialog, load_options, project_load >>

\* load_file has returned to attempt_open_file.
AttemptOpenFileReturns ==
    /\ ui_load.phase \in { "unwound", "finished" }
    /\ LET done == attempt_open_file(ui_load.result, in_loaded_state(program_state))
       IN  ui_load' = [ ui_load EXCEPT !.phase = "returned",
                                       !.message_box = done.message_box,
                                       !.on_file_opened = IF done.on_file_opened
                                                          THEN @ + 1 ELSE @ ]
    /\ UNCHANGED << coreVars, appVars, program_state, last_call, dialog, load_options, project_load >>

UiLoadNext ==
    LoadStart \/ UserClicksCancel \/ LoadCheckpoint \/ LoadComplete \/ AttemptOpenFileReturns

SpecUiLoad == UiLoadInit /\ [][UiLoadNext]_vars

(***************************************************************************)
(* Startup arguments (qtui.py run._arg_file_load)                          *)
(***************************************************************************)
\* loaderlib/constants.py processor_names, in the order of the dict.
processor_names ==
    << << PROCESSOR_UNKNOWN, "Unknown" >>, << PROCESSOR_P65c816, "65c816" >>,
       << PROCESSOR_M680x0, "M680x0" >>, << PROCESSOR_M68000, "M68000" >>,
       << PROCESSOR_M68010, "M68010" >>, << PROCESSOR_M68020, "M68020" >>,
       << PROCESSOR_M68030, "M68030" >>, << PROCESSOR_M68040, "M68040" >>,
       << PROCESSOR_M68060, "M68060" >>, << PROCESSOR_MIPS, "MIPS" >>,
       << PROCESSOR_Z80, "Z80" >> >>

\* str.lower() on the names that occur.
Lower(str) ==
    CASE str = "Unknown" -> "unknown"
      [] str = "65C816"  -> "65c816"
      [] str = "M680x0"  -> "m680x0"
      [] str = "M680X0"  -> "m680x0"
      [] str = "M68000"  -> "m68000"
      [] str = "M68010"  -> "m68010"
      [] str = "M68020"  -> "m68020"
      [] str = "M68030"  -> "m68030"
      [] str = "M68040"  -> "m68040"
      [] str = "M68060"  -> "m68060"
      [] str = "MIPS"    -> "mips"
      [] str = "Z80"     -> "z80"
      [] OTHER           -> str

\* lookup_processor_id_by_name(specified_processor_name): the first processor whose name
\* matches without regard to case, None when the loop ends without a match.
lookup_processor_id_by_name(specified_processor_name) ==
    LET hits == { i \in 1..Len(processor_names) :
                    Lower(processor_names[i][2]) = Lower(specified_processor_name) }
    IN  IF hits = {}
        THEN None
        ELSE Some(processor_names[CHOOSE i \in hits : \A j \in hits : i <= j][1])

\* disassemblylib.get_processor_ids()
get_processor_ids == { PROCESSOR_M680x0, PROCESSOR_MIPS, PROCESSOR_P65c816 }

\* util.str_to_int on the address strings that occur: the value, or None for ValueError.
str_to_int(str) ==
    CASE str = "$1000"  -> Some(4096)
      [] str = "0x1010" -> Some(4112)
      [] str = "4096"   -> Some(4096)
      [] str = "0"      -> Some(0)
      [] OTHER          -> None

\* The names bound in the module namespace of qtui.py (its imports and definitions).
QtuiGlobals ==
    { "pickle", "logging", "operator", "os", "sys", "time", "QtCore", "QtGui", "QtWidgets",
      "QAction", "QShortcut", "disassemblylib", "editor_state", "res", "util", "toolapi",
      "PROJECT_SUFFIX", "app" }

\* file_name.endswith("." + PROJECT_SUFFIX) on the file names that occur.
IsProjectFile(file_name) == file_name \in { "work.psproj" }

\* What _arg_file_load did: its return value (None when it raised), the exception, the
\* load call it made and what it printed.
ArgResult(result, exception, error_text, load_call) ==
    [ returned |-> result, raised |-> exception, error_text |-> error_text,
      load_attempted |-> load_call,
      printed |-> IF result = Some(FALSE) THEN << "error", "usage" >> ELSE << >> ]

\* The end of _arg_file_load: the load call unless there is an error text, then the report.
ArgLoad(error_text, binary, load_answer) ==
    IF error_text # None
    THEN ArgResult(Some(FALSE), "", error_text, "")
    ELSE ArgResult(Some(load_answer = None), "", load_answer,
                   IF binary THEN "load_binary_file" ELSE "load_file")

\* run._arg_file_load() for sys.argv = argv; load_answer is what the toolapi call returns
\* (None, or an error text).
arg_file_load(argv, load_answer) ==
    IF Len(argv) <= 1
    THEN ArgResult(Some(TRUE), "", None, "")
    ELSE IF Len(argv) = 5
    THEN IF "loaderlib" \notin QtuiGlobals
         THEN ArgResult(None, "NameError", None, "")
         ELSE LET found_id == lookup_processor_id_by_name(argv[3])
              IN  IF found_id = None \/ found_id[1] \notin get_processor_ids
                  THEN ArgLoad(Some("arch: not recognised"), found_id # None, load_answer)
                  ELSE IF str_to_int(argv[4]) = None
                  THEN ArgLoad(Some("load address: unable to extract valid value"), TRUE,
                               load_answer)
                  ELSE IF str_to_int(argv[5]) = None
                  THEN ArgLoad(Some("entrypoint address: unable to extract valid value"), TRUE,
                               load_answer)
                  ELSE ArgLoad(None, TRUE, load_answer)
    ELSE IF Len(argv) = 3 /\ ~ IsProjectFile(argv[2])
    THEN ArgLoad(Some("expected project file"), FALSE, load_answer)
    ELSE ArgLoad(None, FALSE, load_answer)

ArchNames == { "M680x0", "m680x0", "MIPS", "65C816", "Z80", "M68000", "Unknown", "amiga", "" }

AddressStrings == { "$1000", "0x1010", "4096", "0", "xyz", "" }

\* sys.argv: no argument, a file, a project and its input file, and a binary file with
\* <arch name> <load address> <entry address>.
ArgvChoices ==
    { << "qtui.py" >>, << "qtui.py", "game.bin" >>, << "qtui.py", "work.psproj" >>,
      << "qtui.py", "work.psproj", "game.bin" >>, << "qtui.py", "game.bin", "game.bin" >> }
    \cup { << "qtui.py", "game.bin", arch, load, entry >> :
             arch \in ArchNames, load \in AddressStrings, entry \in AddressStrings }

ArgsInit ==
    /\ \E argv \in ArgvChoices, load_answer \in { None, Some("load failed") } :
          startup = [ NoStartup EXCEPT !.argv = argv, !.load_answer = load_answer ]
    /\ entrypoint = NoEntrypoint
    /\ cache_call = NoCacheCall
    /\ main_window = NoMainWindow
    /\ dialog = NoDialog /\ load_options = NoLoadOptions /\ project_load = "none"
    /\ ui_load = NoUiLoad
    /\ codec_call = [ op |-> "none" ] /\ codec_result = NoCodecResult
    /\ blocks = << >> /\ last_sequence_id = 0 /\ block_op = NoBlockOp
    /\ block_flags = 0 /\ flags_before = 0 /\ tag_set = None /\ tag_got = None
    /\ file_info = FileInfoInit("amiga", None)
    /\ IdentIdle /\ LoadIdle /\ RelocIdle
    /\ processor_id = InitialProcessorId

\* run() calls _arg_file_load()
ArgFileLoad ==
    /\ ~ startup.called
    /\ LET done == arg_file_load(startup.argv, startup.load_answer)
       IN  startup' = [ startup EXCEPT !.called = TRUE, !.returned = done.returned,
                                       !.raised = done.raised,
                                       !.error_text = done.error_text,
                                       !.load_attempted = done.load_attempted,
                                       !.printed = done.printed ]
    /\ UNCHANGED << coreVars, program_state, last_call, dialog, load_options, project_load,
                    ui_load, entrypoint, cache_call, main_window >>

ArgsNext == ArgFileLoad

SpecArgs == ArgsInit /\ [][ArgsNext]_vars

(***************************************************************************)
(* The entry address (loaderlib get_entrypoint_address, NewProjectDialog)  *)
(***************************************************************************)
\* get_entrypoint_address leaving the offset out.
get_entrypoint_address_SegmentOnly(fi) ==
    get_segment_address(fi.segments, fi.entrypoint_segment_id)

\* get_entrypoint_address(file_info)
get_entrypoint_address(fi) ==
    get_segment_address(fi.segments, fi.entrypoint_segment_id) + fi.entrypoint_offset

\* FileInfo.set_entrypoint(segment_id, offset)
set_entrypoint(fi, segment_id, offset) ==
    [ fi EXCEPT !.entrypoint_segment_id = segment_id, !.entrypoint_offset = offset ]

\* NewProjectDialog.accept for a binary file: the load address and the entry address are
\* parsed from the text fields and the entry point is kept as an offset. None when
\* str_to_int raises.
new_project_accept(load_text, entry_text) ==
    IF str_to_int(load_text) = None \/ str_to_int(entry_text) = None
    THEN None
    ELSE Some([ is_binary_file |-> TRUE,
                loader_load_address |-> str_to_int(load_text)[1],
                loader_entrypoint_offset |-> str_to_int(entry_text)[1] - str_to_int(load_text)[1] ])

EntryOffsets == { 0, 2, 6 }

EntryInit ==
    /\ \E load_text \in AddressStrings, entry_text \in AddressStrings :
          entrypoint = [ NoEntrypoint EXCEPT !.load_text = load_text, !.entry_text = entry_text ]
    /\ startup = NoStartup
    /\ cache_call = NoCacheCall
    /\ main_window = NoMainWindow
    /\ dialog = NoDialog /\ load_options = NoLoadOptions /\ project_load = "none"
    /\ ui_load = NoUiLoad
    /\ codec_call = [ op |-> "none" ] /\ codec_result = NoCodecResult
    /\ blocks = << >> /\ last_sequence_id = 0 /\ block_op = NoBlockOp
    /\ block_flags = 0 /\ flags_before = 0 /\ tag_set = None /\ tag_got = None
    /\ file_info = FileInfoInit("amiga", None)
    /\ IdentIdle /\ LoadIdle /\ RelocIdle
    /\ processor_id = InitialProcessorId

entryRest == << callVars, identVars, loadVars, relocVars, block_flags, flags_before, tag_set,
                tag_got, blockVars, codecVars, dialog, load_options, project_load, ui_load,
                startup, cache_call, main_window >>

\* The user accepts the New Project dialog for a binary file.
NewProjectAccept ==
    /\ entrypoint.accepted = ""
    /\ Len(file_info.segments) = 0
    /\ LET options == new_project_accept(entrypoint.load_text, entrypoint.entry_text)
       IN  entrypoint' = [ entrypoint EXCEPT
                             !.accepted = IF options = None THEN "ValueError" ELSE "accepted",
                             !.new_options = options ]
    /\ UNCHANGED << file_info, processor_id, entryRest >>

\* The options reach load_file as BinaryFileOptions and the binary handler loads the file.
LoadBinaryFile ==
    /\ entrypoint.new_options # None
    /\ file_info.system # "binary"
    /\ \E size \in FileSizes :
          LET options == LoaderOptions(TRUE, PROCESSOR_M680x0,
                                       entrypoint.new_options[1].loader_load_address,
                                       entrypoint.new_options[1].loader_entrypoint_offset)
              r       == BinaryLoad(FileInfoInit("binary", Some(options)), None, size,
                                    processor_id)
          IN  /\ file_info' = r.file_info
              /\ processor_id' = r.processor_id
    /\ entrypoint' = [ entrypoint EXCEPT !.value = None ]
    /\ UNCHANGED entryRest

\* A format handler registers a segment of the file it loads.
EntryAddSegment ==
    /\ entrypoint.accepted = ""
    /\ Len(file_info.segments) < MaxSegments
    /\ \E t \in SegmentTypes, sl \in SegmentLengths :
          file_info' = add_segment(file_info, t, 0, sl, sl, << >>, << >>)
    /\ entrypoint' = [ entrypoint EXCEPT !.value = None ]
    /\ UNCHANGED << processor_id, entryRest >>

\* A format handler sets the entry point of the file it loads.
SetEntrypoint ==
    /\ entrypoint.accepted = ""
    /\ \E segment_id \in 0..(Len(file_info.segments) - 1), offset \in EntryOffsets :
          file_info' = set_entrypoint(file_info, segment_id, offset)
    /\ entrypoint' = [ entrypoint EXCEPT !.value = None ]
    /\ UNCHANGED << processor_id, entryRest >>

GetEntrypointAddress ==
    /\ file_info.entrypoint_segment_id < Len(file_info.segments)
    /\ entrypoint.value = None
    /\ entrypoint' = [ entrypoint EXCEPT !.value = Some(get_entrypoint_address(file_info)) ]
    /\ UNCHANGED << file_info, processor_id, entryRest >>

EntryNext ==
    NewProjectAccept \/ LoadBinaryFile \/ EntryAddSegment \/ SetEntrypoint \/ GetEntrypointAddress

SpecEntry == EntryInit /\ [][EntryNext]_vars

(***************************************************************************)
(* SpecCache: add_segment, cache_segment_data and relocate_segment_data    *)
(* called in any order on the segments of one FileInfo.                    *)
(***************************************************************************)
\* The input files: their bytes, all different.
CacheFiles == { << >>, << 10, 11, 12, 13 >>, << 10, 11, 12, 13, 14, 15, 16, 17 >> }

\* The segments a handler registers: with file data at the start, further in and past the
\* end of the file, without file data (file_offset -1), and with no data at all.
CacheSegmentShapes ==
    { [ type |-> SEGMENT_TYPE_CODE, file_offset |-> 0, data_length |-> 4, length |-> 4,
        relocations |-> << [ target |-> 0, offsets |-> << 0 >> ] >> ],
      [ type |-> SEGMENT_TYPE_DATA, file_offset |-> 4, data_length |-> 4, length |-> 6,
        relocations |-> << >> ],
      [ type |-> SEGMENT_TYPE_DATA, file_offset |-> 6, data_length |-> 4, length |-> 4,
        relocations |-> << >> ],
      [ type |-> SEGMENT_TYPE_BSS, file_offset |-> -1, data_length |-> 4, length |-> 4,
        relocations |-> << >> ],
      [ type |-> SEGMENT_TYPE_CODE, file_offset |-> 2, data_length |-> 0, length |-> 0,
        relocations |-> << >> ] }

BaseFileOffsets == { 0, 2 }

CacheInit ==
    /\ input_file \in CacheFiles
    /\ \E opts \in RelocOptionChoices : file_info = FileInfoInit("amiga", opts)
    /\ cache_call = NoCacheCall
    /\ startup = NoStartup /\ entrypoint = NoEntrypoint
    /\ main_window = NoMainWindow
    /\ dialog = NoDialog /\ load_options = NoLoadOptions /\ project_load = "none"
    /\ ui_load = NoUiLoad
    /\ codec_call = [ op |-> "none" ] /\ codec_result = NoCodecResult
    /\ blocks = << >> /\ last_sequence_id = 0 /\ block_op = NoBlockOp
    /\ block_flags = 0 /\ flags_before = 0 /\ tag_set = None /\ tag_got = None
    /\ last_call = "none"
    /\ matches = << >> /\ selected = None /\ identified = None
    /\ LoadIdle /\ RelocIdle
    /\ processor_id = InitialProcessorId

cacheRest == << input_file, identVars, loadVars, processor_id, data_types_endian,
                relocatable_addresses, relocated_addresses, reloc_status, loaded_segments,
                program_state, load_step, cache_status, block_flags,
                flags_before, tag_set, tag_got, blockVars, codecVars, dialog, load_options,
                project_load, ui_load, startup, entrypoint, main_window >>

\* file_info.add_segment(...)
CacheAddSegment ==
    /\ Len(file_info.segments) < MaxSegments
    /\ \E shape \in CacheSegmentShapes :
          file_info' = add_segment(file_info, shape.type, shape.file_offset, shape.data_length,
                                   shape.length, shape.relocations, << >>)
    /\ cache_call' = [ NoCacheCall EXCEPT !.op = "add_segment",
                                          !.segments_before = file_info.segments ]
    /\ last_call' = "add_segment"
    /\ UNCHANGED << reloc_runs, cacheRest >>

\* cache_segment_data(input_file, segments, segment_id, base_file_offset)
CacheOneSegment ==
    /\ \E segment_id \in 0..(Len(file_info.segments) - 1), base_file_offset \in BaseFileOffsets :
          LET done == cache_segment_data(input_file, file_info.segments, segment_id,
                                         base_file_offset)
          IN  /\ file_info' = SetCachedData(file_info, segment_id, done.cached_data)
              /\ cache_call' = [ op |-> "cache_segment_data", segment_id |-> segment_id,
                                 base_file_offset |-> base_file_offset,
                                 file_ops |-> done.file_ops,
                                 segments_before |-> file_info.segments ]
    /\ last_call' = "cache_segment_data"
    /\ UNCHANGED << reloc_runs, cacheRest >>

\* relocate_segment_data(segments, data_types, relocations, set(), {})
CacheRelocate ==
    /\ Len(file_info.segments) > 0
    /\ reloc_runs < MaxRelocRuns
    /\ reloc_runs' = reloc_runs + 1
    /\ LET st == relocate_segment_data(file_info.segments, data_types_endian,
                                       file_info.relocations_by_segment_id, {}, EmptyDict)
       IN  file_info' = [ file_info EXCEPT !.segments = st.segments ]
    /\ cache_call' = [ NoCacheCall EXCEPT !.op = "relocate_segment_data",
                                          !.segments_before = file_info.segments ]
    /\ last_call' = "relocate_segment_data"
    /\ UNCHANGED cacheRest

CacheNext == CacheAddSegment \/ CacheOneSegment \/ CacheRelocate

SpecCache == CacheInit /\ [][CacheNext]_vars

(***************************************************************************)
(* MainWindow (qtui.py): the progress dialog and File > Open               *)
(***************************************************************************)
\* The load attempts one window is followed through.
MaxLoads == 3

\* show_progress_dialog(args): a QProgressDialog with range 0..step_count and value 0.
show_progress_dialog(self, step_count, can_cancel) ==
    [ self EXCEPT !._progress_dialog = Some([ value |-> 0, maximum |-> step_count,
                                              label |-> "description",
                                              cancel_button_text |->
                                                  IF can_cancel THEN "&Cancel" ELSE "" ]),
                  !._progress_dialog_steps = step_count,
                  !.handled = Append(@, "show") ]

\* update_progress_dialog(args): d = self._progress_dialog; d.setLabelText; d.setValue.
\* With no dialog d is None and d.setLabelText raises AttributeError.
update_progress_dialog(self, message, step_number) ==
    IF self._progress_dialog = None
    THEN [ self EXCEPT !.raised = "AttributeError", !.handled = Append(@, "update") ]
    ELSE [ self EXCEPT !._progress_dialog = Some([ self._progress_dialog[1] EXCEPT
                                                     !.label = message,
                                                     !.value = step_number ]),
                       !.handled = Append(@, "update") ]

\* close_progress_dialog leaving the remembered step count as it was.
close_progress_dialog_KeepsSteps(self) ==
    IF self._progress_dialog = None
    THEN [ self EXCEPT !.raised = "AttributeError", !.handled = Append(@, "close") ]
    ELSE [ self EXCEPT !._progress_dialog = None, !.handled = Append(@, "close") ]

\* close_progress_dialog(): d.setValue(self._progress_dialog_steps), then the reference
\* and the step count are dropped. With no dialog d.setValue raises AttributeError.
close_progress_dialog(self) ==
    IF self._progress_dialog = None
    THEN [ self EXCEPT !.raised = "AttributeError", !.handled = Append(@, "close") ]
    ELSE [ self EXCEPT !._progress_dialog = None, !._progress_dialog_steps = 0,
                       !.handled = Append(@, "close") ]

\* reset_all(): reset_ui tells every view its rows are removed, reset_state restores the title.
reset_all(self) ==
    [ self EXCEPT !.rows_shown = FALSE, !.window_title = APPLICATION_NAME ]

\* editor_state.in_initial_state(client)
in_initial_state(self) == self.editor_state = "initial"

\* What of the window shows the loaded work.
WindowShows(self) ==
    [ editor_state |-> self.editor_state, window_title |-> self.window_title,
      rows_shown |-> self.rows_shown, load_attempts |-> self.load_attempts ]

\* attempt_open_file up to the first notification of editor_state.load_file: the editor
\* leaves its state, on_file_load_start sets the title, the progress dialog is shown.
LoadFileStarts(self, step_count, can_cancel) ==
    show_progress_dialog([ self EXCEPT !.editor_state = "loading",
                                       !.load_attempts = @ + 1,
                                       !.window_title = "PeaSauce - file",
                                       !.handled = << >> ],
                         step_count, can_cancel)

\* menu_file_open without the test of in_initial_state.
menu_file_open_NoInitialTest(self, answer, step_count, can_cancel) ==
    LET called == [ NoMenuCall EXCEPT !.called = TRUE, !.state_before = self.editor_state,
                                      !.window_before = Some(WindowShows(self)) ]
    IN  IF self.editor_state = "loaded"
        THEN IF answer # "Ok"
             THEN [ self EXCEPT !.menu = [ called EXCEPT !.asked = TRUE, !.answer = answer ] ]
             ELSE [ LoadFileStarts(reset_all(self), step_count, can_cancel) EXCEPT
                      !.menu = [ called EXCEPT !.asked = TRUE, !.answer = answer,
                                               !.reset_all = TRUE, !.attempted = TRUE ] ]
        ELSE [ LoadFileStarts(self, step_count, can_cancel) EXCEPT
                 !.menu = [ called EXCEPT !.attempted = TRUE ] ]

\* menu_file_open(): answer is what QMessageBox.question returns when it is asked.
menu_file_open(self, answer, step_count, can_cancel) ==
    LET called == [ NoMenuCall EXCEPT !.called = TRUE, !.state_before = self.editor_state,
                                      !.window_before = Some(WindowShows(self)) ]
    IN  IF self.editor_state = "loaded"
        THEN IF answer # "Ok"
             THEN [ self EXCEPT !.menu = [ called EXCEPT !.asked = TRUE, !.answer = answer ] ]
             ELSE [ LoadFileStarts(reset_all(self), step_count, can_cancel) EXCEPT
                      !.menu = [ called EXCEPT !.asked = TRUE, !.answer = answer,
                                               !.reset_all = TRUE, !.attempted = TRUE ] ]
        ELSE IF ~ in_initial_state(self)
        THEN [ self EXCEPT !.menu = called ]
        ELSE [ LoadFileStarts(self, step_count, can_cancel) EXCEPT
                 !.menu = [ called EXCEPT !.attempted = TRUE ] ]

MainWindowInit ==
    /\ FlagIdle
    /\ file_info = FileInfoInit("amiga", None)
    /\ IdentIdle /\ LoadIdle /\ RelocIdle
    /\ processor_id = InitialProcessorId

mainWindowRest == << coreVars, program_state, last_call, dialog, load_options, project_load,
                     ui_load, startup, entrypoint, cache_call >>

\* File > Open is chosen: from the idle window, or while a load is under way (its
\* checkpoints run the event loop).
MenuFileOpen ==
    /\ main_window.load_attempts < MaxLoads
    /\ \E answer \in { "Ok", "Cancel" }, step_count \in 1..MaxSteps, can_cancel \in BOOLEAN :
          main_window' = menu_file_open(main_window, answer, step_count, can_cancel)
    /\ UNCHANGED mainWindowRest

\* The load reports a step: event_prolonged_action_update -> update_progress_dialog.
ProlongedActionUpdate ==
    /\ main_window.editor_state = "loading"
    /\ \E step_number \in 1..main_window._progress_dialog_steps :
          /\ step_number > main_window._progress_dialog[1].value
          /\ main_window' = update_progress_dialog(main_window, "message", step_number)
    /\ UNCHANGED mainWindowRest

\* The load ends: event_prolonged_action_complete -> close_progress_dialog, load_file
\* returns to attempt_open_file, which runs on_file_opened after a successful load.
LoadFileEnds ==
    /\ main_window.editor_state = "loading"
    /\ \E result \in { "ok", "str", "None" } :
          LET closed == close_progress_dialog(main_window)
              ended  == [ closed EXCEPT !.editor_state = IF result = "ok" THEN "loaded"
                                                                          ELSE "initial" ]
              done   == attempt_open_file(result, ended.editor_state = "loaded")
          IN  main_window' = [ ended EXCEPT !.rows_shown = @ \/ done.on_file_opened ]
    /\ UNCHANGED mainWindowRest

MainWindowNext == MenuFileOpen \/ ProlongedActionUpdate \/ LoadFileEnds

SpecMainWindow == MainWindowInit /\ [][MainWindowNext]_vars

(***************************************************************************)
(* MainWindow._add_rows_to_model and CustomItemModel (qtui.py)             *)
(***************************************************************************)
\* The addresses and the rows followed.
MaxAddress == 2
MaxRows == 2

\* The labels of the rows, and their place in Python's order of strings.
Labels == { "a", "b" }
LabelOrder(label) == IF label = "a" THEN 1 ELSE 2

\* A row of the symbols model: (symbol_address, symbol_label).
Rows == (1..MaxAddress) \X Labels

\* row[column] as it compares: column 0 is the address, column 1 the label.
Cell(row, column) == IF column = 0 THEN row[1] ELSE LabelOrder(row[2])

\* Whether key (a1, a2) sorts before key (b1, b2).
KeyLess(a1, a2, b1, b2) == a1 < b1 \/ (a1 = b1 /\ a2 < b2)

\* One row put into a sorted list, behind the rows it does not sort before (list.sort is
\* stable, with reverse = True too).
SortedInsert(l, row, ix1, ix2, order) ==
    LET before(other) ==
            IF order = "AscendingOrder"
            THEN KeyLess(Cell(row, ix1), Cell(row, ix2), Cell(other, ix1), Cell(other, ix2))
            ELSE KeyLess(Cell(other, ix1), Cell(other, ix2), Cell(row, ix1), Cell(row, ix2))
        heads == { k \in 0..Len(l) : \A i \in 1..k : ~ before(l[i]) }
        place == CHOOSE k \in heads : \A j \in heads : j <= k
    IN  SubSeq(l, 1, place) \o << row >> \o SubSeq(l, place + 1, Len(l))

\* CustomItemModel._sort_list(l)
RECURSIVE sort_list(_, _)
sort_list(model, l) ==
    IF l = << >>
    THEN << >>
    ELSE SortedInsert(sort_list(model, SubSeq(l, 1, Len(l) - 1)), l[Len(l)],
                      model._sort_column1, model._sort_column2, model._sort_order)

\* list.insert(index, row)
ListInsert(l, index, row) == SubSeq(l, 1, index) \o << row >> \o SubSeq(l, index + 1, Len(l))

\* The while loop of _add_rows_to_model from (to_index, from_index) on; ranges is
\* insert_ranges, told the ranges handed to _set_row_data. Indexes are Python's.
RECURSIVE AddRowsLoop(_, _, _, _, _, _, _)
AddRowsLoop(model, to_row_data, rows, to_index, from_index, ranges, told) ==
    IF ~ (to_index < Len(to_row_data) /\ from_index < Len(rows))
    THEN [ _row_data |-> to_row_data,
           inserted |-> IF ranges # << >> THEN Append(told, ranges[Len(ranges)]) ELSE told ]
    ELSE LET insert_row == rows[from_index + 1]
             there      == to_row_data[to_index + 1]
             op == IF model._sort_order = "AscendingOrder"
                   THEN Cell(insert_row, model._sort_column1) <= Cell(there, model._sort_column1)
                   ELSE Cell(insert_row, model._sort_column1) >= Cell(there, model._sort_column1)
         IN  IF op
             THEN LET doesNotExistAlready == insert_row # there
                      data  == IF doesNotExistAlready
                               THEN ListInsert(to_row_data, to_index, insert_row)
                               ELSE to_row_data
                      grows == ranges # << >> /\ ranges[Len(ranges)][2] = to_index - 1
                      next_ranges ==
                          IF grows
                          THEN [ ranges EXCEPT ![Len(ranges)] = << @[1], to_index >> ]
                          ELSE IF doesNotExistAlready
                          THEN Append(ranges, << to_index, to_index >>)
                          ELSE ranges
                      next_told ==
                          IF ~ grows /\ ranges # << >>
                          THEN Append(told, ranges[Len(ranges)])
                          ELSE told
                  IN  AddRowsLoop(model, data, rows, to_index + 1, from_index + 1,
                                  next_ranges, next_told)
             ELSE AddRowsLoop(model, to_row_data, rows, to_index + 1, from_index, ranges, told)

\* _add_rows_to_model(to_model, addition_rows): the model afterwards.
add_rows_to_model(to_model, addition_rows) ==
    LET done == AddRowsLoop(to_model, to_model._row_data, sort_list(to_model, addition_rows),
                            0, 0, << >>, << >>)
    IN  [ to_model EXCEPT !._row_data = done._row_data, !.inserted = done.inserted ]

\* Lists of at most MaxRows different rows.
RowLists ==
    { l \in UNION { [ 1..k -> Rows ] : k \in 0..MaxRows } :
        \A i, j \in 1..Len(l) : i # j => l[i] # l[j] }

\* Whether the rows of the model are sorted by its sort column.
SortedBySortColumn(model) ==
    \A i \in 1..(Len(model._row_data) - 1) :
        IF model._sort_order = "AscendingOrder"
        THEN Cell(model._row_data[i], model._sort_column1)
                <= Cell(model._row_data[i + 1], model._sort_column1)
        ELSE Cell(model._row_data[i], model._sort_column1)
                >= Cell(model._row_data[i + 1], model._sort_column1)

RowsInit ==
    /\ \E l \in RowLists, rows \in RowLists \ { << >> }, column \in { 0, 1 },
          order \in { "AscendingOrder", "DescendingOrder" } :
          LET model == [ NoItemModel EXCEPT !._row_data = l, !._sort_column1 = column,
                                            !._sort_order = order ]
          IN  /\ SortedBySortColumn(model)
              /\ main_window = [ NoMainWindow EXCEPT !.symbols_model = model,
                                                     !.addition_rows = rows ]
    /\ startup = NoStartup /\ entrypoint = NoEntrypoint /\ cache_call = NoCacheCall
    /\ dialog = NoDialog /\ load_options = NoLoadOptions /\ project_load = "none"
    /\ ui_load = NoUiLoad
    /\ codec_call = [ op |-> "none" ] /\ codec_result = NoCodecResult
    /\ blocks = << >> /\ last_sequence_id = 0 /\ block_op = NoBlockOp
    /\ block_flags = 0 /\ flags_before = 0 /\ tag_set = None /\ tag_got = None
    /\ file_info = FileInfoInit("amiga", None)
    /\ IdentIdle /\ LoadIdle /\ RelocIdle
    /\ processor_id = InitialProcessorId

\* on_disassembly_symbol_added and the other callers: _add_rows_to_model(model, rows)
AddRowsToModel ==
    /\ main_window.last_handler = ""
    /\ main_window' = [ main_window EXCEPT
                          !.symbols_model = add_rows_to_model(@, main_window.addition_rows),
                          !.rows_before = main_window.symbols_model._row_data,
                          !.last_handler = "_add_rows_to_model" ]
    /\ UNCHANGED mainWindowRest

RowsNext == AddRowsToModel

SpecRows == RowsInit /\ [][RowsNext]_vars

(***************************************************************************)
(* Properties of identify_file (SpecIdentify)                              *)
(***************************************************************************)
\* Index of the pooled candidate with the highest confidence, the earliest registered
\* among equals (the pool is in registration order).
BestIndex(pool) ==
    CHOOSE i \in 1..Len(pool) :
        /\ \A j \in 1..Len(pool) : pool[j].match.confidence <= pool[i].match.confidence
        /\ \A j \in 1..(i - 1) : pool[j].match.confidence < pool[i].match.confidence

\* C2: identify_file selects the pooled candidate with the highest confidence, the one of
\* the earliest registered handler among those that share it.
C2_SelectsHighestConfidence ==
    (last_call = "identify_file" /\ matches # << >>)
        => selected = Some(matches[BestIndex(matches)])

\* C3: a result identify_file returns is built from the taken candidate, and that
\* candidate has neither file_format_id UNKNOWN nor confidence NONE.
C3_ResultNeverFromUnknownOrNone ==
    identified # None =>
        /\ selected # None
        /\ identified[1].file_info.system = selected[1].system
        /\ identified[1].result.platform = selected[1].match.platform_id
        /\ identified[1].result.filetype = selected[1].match.file_format_id
        /\ selected[1].match.file_format_id # FILEFORMAT_UNKNOWN
        /\ selected[1].match.confidence # MATCH_NONE

\* C3 witness: a result is returned although the pool holds a candidate with
\* file_format_id UNKNOWN.
C3_Witness ==
    /\ identified # None
    /\ \E i \in 1..Len(matches) : matches[i].match.file_format_id = FILEFORMAT_UNKNOWN

SegmentsAddedBy(s) == IF s = "binary" THEN 1 ELSE Len(input_file.load[s].added)

\* C5: load_file asks the handlers in registration order, stops at the first whose loader
\* succeeds and returns the FileInfo that handler was given, which holds only what that
\* handler added; when every handler rejects it returns no FileInfo.
C5_FirstSuccessInRegistrationOrder ==
    last_call = "load_file" =>
        /\ Len(asked) <= Len(SystemNames)
        /\ \A i \in 1..Len(asked) : asked[i].system = SystemNames[i]
        /\ \A i \in 1..(Len(asked) - 1) : ~ asked[i].ok
        /\ \A i \in 1..Len(asked) :
              asked[i].system # "binary" => asked[i].ok = input_file.load[asked[i].system].ok
        /\ returned # None =>
              /\ asked[Len(asked)].ok
              /\ returned[1] = asked[Len(asked)].file_info
              /\ returned[1].system = asked[Len(asked)].system
              /\ Len(returned[1].segments) = SegmentsAddedBy(returned[1].system)
              /\ Len(returned[1].relocations_by_segment_id) = Len(returned[1].segments)
              /\ Len(returned[1].symbols_by_segment_id) = Len(returned[1].segments)
        /\ returned = None =>
              /\ Len(asked) = Len(SystemNames)
              /\ \A i \in 1..Len(asked) : ~ asked[i].ok

\* C5 witness: amiga and atarist reject after adding a segment each, human68k succeeds
\* and the returned FileInfo holds human68k's one segment.
C5_Witness ==
    /\ last_call = "load_file"
    /\ Len(asked) = 3
    /\ ~ asked[1].ok /\ Len(asked[1].file_info.segments) = 1
    /\ ~ asked[2].ok /\ Len(asked[2].file_info.segments) = 1
    /\ returned # None
    /\ returned[1].system = "human68k"
    /\ Len(returned[1].segments) = 1

\* The answer of the binary handler in the last load_file call, if it was asked.
BinaryAsked == { i \in 1..Len(asked) : asked[i].system = "binary" }

\* C6: the binary loader succeeds only for loader options marked is_binary_file, a
\* rejecting binary loader adds no segment and leaves its processor_id alone, and
\* identify_file never pools, takes or returns a candidate of the binary handler.
C6_BinaryOnlyOnRequest ==
    /\ [](/\ \A i \in BinaryAsked :
                /\ asked[i].ok =>
                      /\ load_args[1].loader_options # None
                      /\ load_args[1].loader_options[1].is_binary_file
                /\ ~ asked[i].ok => asked[i].file_info.segments = << >>
          /\ \A i \in 1..Len(matches) : matches[i].system # "binary"
          /\ selected # None => selected[1].system # "binary"
          /\ identified # None => identified[1].file_info.system # "binary")
    /\ [][ (\A i \in 1..Len(asked') : asked'[i].system = "binary" => ~ asked'[i].ok)
              => processor_id'["binary"] = processor_id["binary"] ]_vars

\* C6 witness: the binary loader rejects options that are not marked is_binary_file and
\* keeps the processor id an earlier binary load gave it.
C6_Witness ==
    /\ last_call = "load_file"
    /\ load_args[1].loader_options # None
    /\ ~ load_args[1].loader_options[1].is_binary_file
    /\ BinaryAsked # {}
    /\ \A i \in BinaryAsked : ~ asked[i].ok /\ asked[i].file_info.segments = << >>
    /\ processor_id["binary"] = PROCESSOR_M68000

\* C7: a file loaded by the binary handler has exactly one segment: CODE, file_offset 0,
\* at the options' load address, data_length and length the file's size (the file_length
\* argument when one is passed), no cached data, and an empty relocation list.
C7_RawBinaryOneCodeSegment ==
    (last_call = "load_file" /\ returned # None /\ returned[1].system = "binary") =>
        LET opts == load_args[1].loader_options[1]
            n == IF load_args[1].file_length = None
                 THEN input_file.size
                 ELSE load_args[1].file_length[1]
        IN  /\ returned[1].segments =
                  << Segment(SEGMENT_TYPE_CODE, 0, n, n, opts.load_address, None) >>
            /\ returned[1].relocations_by_segment_id = << << >> >>
            /\ returned[1].symbols_by_segment_id = << << >> >>
            /\ processor_id["binary"] = opts.processor_id

\* C7 witness: 1024 bytes, load address 0x1000, processor M68000.
C7_Witness ==
    /\ last_call = "load_file"
    /\ returned # None
    /\ returned[1].system = "binary"
    /\ load_args[1].file_length = None
    /\ input_file.size = 1024
    /\ processor_id["binary"] = PROCESSOR_M68000
    /\ returned[1].segments = << Segment(SEGMENT_TYPE_CODE, 0, 1024, 1024, 4096, None) >>
    /\ returned[1].relocations_by_segment_id = << << >> >>


(***************************************************************************)
(* Properties of relocate_segment_data (SpecReloc)                         *)
(***************************************************************************)
\* The 4-byte fields the relocation tables list: segment, target segment, offset, and the
\* place of the offset in the table (an offset may be listed more than once).
ListedFields ==
    UNION { UNION { { [ sid |-> s, entry |-> e, at |-> j ] :
                        j \in 1..Len(file_info.relocations_by_segment_id[s + 1][e].offsets) } :
                    e \in 1..Len(file_info.relocations_by_segment_id[s + 1]) } :
            s \in 0..(Len(file_info.segments) - 1) }

FieldTarget(f) == file_info.relocations_by_segment_id[f.sid + 1][f.entry].target
FieldOffset(f) == file_info.relocations_by_segment_id[f.sid + 1][f.entry].offsets[f.at]

\* The segment data before the first pass and now.
DataBefore(sid) == loaded_segments[sid + 1].cached_data[1]
DataNow(sid) == file_info.segments[sid + 1].cached_data[1]

\* The value stored in a field before the first pass, and the address it is to become.
StoredValue(f) == uint32(SubSeq(DataBefore(f.sid), FieldOffset(f) + 1, FieldOffset(f) + 4),
                         data_types_endian)
RelocatedValue(f) == AddAddress(StoredValue(f), loaded_segments[FieldTarget(f) + 1].address)
Referrer(f) == loaded_segments[f.sid + 1].address + FieldOffset(f)

FieldsDisjoint ==
    \A f, g \in ListedFields :
        (f # g /\ f.sid = g.sid) =>
            (FieldOffset(f) + 4 <= FieldOffset(g) \/ FieldOffset(g) + 4 <= FieldOffset(f))

InSomeField(sid, k) ==
    \E f \in ListedFields : f.sid = sid /\ k > FieldOffset(f) /\ k <= FieldOffset(f) + 4

\* What C8 says holds after one pass.
RelocatedOnce ==
    /\ \A f \in ListedFields :
          /\ uint32(SubSeq(DataNow(f.sid), FieldOffset(f) + 1, FieldOffset(f) + 4),
                    data_types_endian) = RelocatedValue(f)
          /\ RelocatedValue(f) \in DOMAIN relocated_addresses
          /\ Referrer(f) \in relocated_addresses[RelocatedValue(f)]
          /\ Referrer(f) \in relocatable_addresses
    /\ \A sid \in 0..(Len(file_info.segments) - 1) :
          /\ Len(DataNow(sid)) = Len(DataBefore(sid))
          /\ \A k \in 1..Len(DataNow(sid)) :
                ~ InSomeField(sid, k) => DataNow(sid)[k] = DataBefore(sid)[k]
          /\ [ file_info.segments[sid + 1] EXCEPT !.cached_data = None ]
                = [ loaded_segments[sid + 1] EXCEPT !.cached_data = None ]

\* C8 as claimed: after one pass that returned, every listed field holds address(T) + v
\* for its original value v, its referrer is in relocated_addresses[address(T) + v] and in
\* relocatable_addresses, and no other byte of any segment has changed.
C8_OnePassRelocatesEveryField ==
    (reloc_runs = 1 /\ reloc_status = "ok") => RelocatedOnce

\* C8 as amended: the same, for relocation tables whose 4-byte fields do not overlap; the
\* two collections then hold exactly the referrers and relocated addresses of the fields.
C8_OnePassRelocatesDisjointFields ==
    (reloc_runs = 1 /\ reloc_status = "ok" /\ FieldsDisjoint) =>
        /\ RelocatedOnce
        /\ relocatable_addresses = { Referrer(f) : f \in ListedFields }
        /\ DOMAIN relocated_addresses = { RelocatedValue(f) : f \in ListedFields }
        /\ \A a \in DOMAIN relocated_addresses :
              relocated_addresses[a] = { Referrer(f) : f \in { g \in ListedFields : RelocatedValue(g) = a } }

\* C8 witness: a little-endian file at load address 0x1000; segment 0 lists offsets 0 and 4
\* against segment 1, segment 1 lists offset 0 against itself, and one relocated address
\* has collected two referrers.
C8_Witness ==
    /\ reloc_runs = 1 /\ reloc_status = "ok" /\ FieldsDisjoint
    /\ data_types_endian = ENDIAN_LITTLE
    /\ file_info.load_address = 4096
    /\ file_info.relocations_by_segment_id[1] = << [ target |-> 1, offsets |-> << 0, 4 >> ] >>
    /\ file_info.relocations_by_segment_id[2] # << >>
    /\ \E a \in DOMAIN relocated_addresses : Cardinality(relocated_addresses[a]) >= 2
    /\ DataNow(0) # DataBefore(0)


(***************************************************************************)
(* Properties of the load sequence (SpecFramework)                         *)
(***************************************************************************)
\* C9: the relocation pass is applied at most once per loaded file: whatever the sequence of
\* load operations, a pass never starts over segment data a pass has already run over, and
\* until the pass of a load the cached data is as cache_segment_data read it.
C9_RelocationAtMostOncePerLoad ==
    /\ [](reloc_runs <= 1)
    /\ [](reloc_runs = 0 => file_info.segments = loaded_segments \/ load_step = "idle")
    /\ [][reloc_runs' > reloc_runs => (reloc_runs = 0 /\ file_info.segments = loaded_segments)]_vars

\* C9 witness: a file with a relocation was loaded, relocated by one pass and is LOADED.
C9_Witness ==
    /\ load_step = "done"
    /\ program_state = STATE_LOADED
    /\ reloc_runs = 1
    /\ relocatable_addresses # {}
    /\ file_info.segments # loaded_segments

(***************************************************************************)
(* Properties of the block flag accessors (SpecFlags)                      *)
(***************************************************************************)
\* C10: after set_block_data_type(b, T) with a supported tag T, whatever b.flags was,
\* get_block_data_type(b) returns T.
C10_GetAfterSetReturnsTag ==
    (tag_set # None /\ tag_set[1] \in SupportedTags) =>
        /\ tag_got = tag_set
        /\ get_block_data_type(block_flags) = tag_set[1]

\* C10 witness: DATA16 set on a block whose flags had every bit set, and read back.
C10_Witness ==
    /\ tag_set = Some(DATA_TYPE_DATA16)
    /\ flags_before = Pow2(FlagBits) - 1
    /\ tag_got = Some(DATA_TYPE_DATA16)
    /\ block_flags = Pow2(FlagBits) - 1 - 3


\* The bits of a flags value outside the data-type field.
OutsideTypeField(flags) == BitAndNot(flags, ShiftLeft(DATA_TYPE_BITMASK, DATA_TYPE_BIT0))

\* C11: set_block_data_type changes only the data-type bits of block.flags: the allocation
\* bit, the processed bit and every other bit outside the data-type field are as before the
\* call, for every flags value and every tag; get_block_data_type leaves the flags alone.
C11_SetChangesOnlyTypeBits ==
    /\ [](last_call = "set_block_data_type" =>
            /\ OutsideTypeField(block_flags) = OutsideTypeField(flags_before)
            /\ BitAnd(block_flags, BLOCK_FLAG_ALLOC) = BitAnd(flags_before, BLOCK_FLAG_ALLOC)
            /\ BitAnd(block_flags, BLOCK_FLAG_PROCESSED) = BitAnd(flags_before, BLOCK_FLAG_PROCESSED))
    /\ [][last_call' = "get_block_data_type" =>
            (block_flags' = block_flags /\ flags_before' = flags_before)]_vars

\* C11 witness: ASCII set on a block that was CODE with the allocation, processed and two
\* further bits set; only the type field has changed.
C11_Witness ==
    /\ last_call = "set_block_data_type"
    /\ flags_before = Pow2(FlagBits) - 8 + DATA_TYPE_CODE
    /\ tag_set = Some(DATA_TYPE_ASCII)
    /\ block_flags = Pow2(FlagBits) - 8 + DATA_TYPE_ASCII


(***************************************************************************)
(* Properties of SegmentBlock (SpecBlocks)                                 *)
(***************************************************************************)
\* C12: the block produced when a block is split, a SegmentBlock constructed as a copy of the
\* original, has flags equal to original.flags & BLOCK_SPLIT_BITMASK: data-type, allocation
\* and processed bits are the original's, every bit outside the mask is clear.
C12_SplitPieceFlagsMasked ==
    block_op.kind = "split" =>
        LET piece == blocks[block_op.new]
            original == block_op.before[1]
        IN  /\ piece.flags = BitAnd(original.flags, BLOCK_SPLIT_BITMASK)
            /\ get_block_data_type(piece.flags) = get_block_data_type(original.flags)
            /\ BitAnd(piece.flags, BLOCK_FLAG_ALLOC) = BitAnd(original.flags, BLOCK_FLAG_ALLOC)
            /\ BitAnd(piece.flags, BLOCK_FLAG_PROCESSED) = BitAnd(original.flags, BLOCK_FLAG_PROCESSED)
            /\ BitAndNot(piece.flags, BLOCK_SPLIT_BITMASK) = 0

\* C12 witness: a block with every flag bit set was split; the piece has the five bits of
\* the mask and nothing else.
C12_Witness ==
    /\ block_op.kind = "split"
    /\ block_op.before[1].flags = Pow2(FlagBits) - 1
    /\ blocks[block_op.new].flags = BLOCK_SPLIT_BITMASK
    /\ blocks[block_op.new].flags # block_op.before[1].flags

\* C13: after any sequence of SegmentBlock constructions, fresh or as copies, all blocks have
\* pairwise distinct sequence_ids; a new block's id is greater than every id assigned before
\* (a copy never keeps the id of its original); constructing a copy leaves the original as
\* it was.
C13_SequenceIdsDistinctIncreasing ==
    /\ \A i, j \in 1..Len(blocks) :
          i # j => blocks[i].sequence_id # blocks[j].sequence_id
    /\ \A i \in 1..Len(blocks) :
          blocks[i].sequence_id # None /\ blocks[i].sequence_id[1] <= last_sequence_id
    /\ block_op.kind # "none" =>
          /\ blocks[block_op.new].sequence_id[1] > block_op.last_before
          /\ \A i \in 1..Len(blocks) :
                i # block_op.new => blocks[i].sequence_id[1] < blocks[block_op.new].sequence_id[1]
    /\ block_op.kind = "copy" =>
          /\ blocks[block_op.from] = block_op.before[1]
          /\ blocks[block_op.new].sequence_id # block_op.before[1].sequence_id

\* C13 witness: three blocks, the last a copy of the first, numbered 1, 2, 3.
C13_Witness ==
    /\ Len(blocks) = 3
    /\ block_op.kind = "copy" /\ block_op.from = 1
    /\ blocks[1].sequence_id = Some(1)
    /\ blocks[3].sequence_id = Some(3)
    /\ blocks[3].address = blocks[1].address /\ blocks[3].flags = blocks[1].flags
    /\ blocks[1].flags > BLOCK_SPLIT_BITMASK


(***************************************************************************)
(* Properties of ProgramData.state (SpecFramework)                         *)
(***************************************************************************)
\* C14: ProgramData.state starts as LOADING; the only change any sequence of operations makes
\* to the state of a ProgramData is LOADING -> LOADED (made when loading and relocation have
\* succeeded); once LOADED it is never LOADING again, and it is never anything but LOADING
\* or LOADED. (A load that begins works on a new ProgramData.)
C14_StateOnlyLoadingToLoaded ==
    /\ [](program_state \in { STATE_LOADING, STATE_LOADED })
    /\ [](load_step \in { "idle", "loaded", "cached", "relocated", "failed" }
            => program_state = STATE_LOADING)
    /\ [](load_step = "done" => program_state = STATE_LOADED)
    /\ [][(program_state' # program_state /\ last_call' # "load_file")
            => (program_state = STATE_LOADING /\ program_state' = STATE_LOADED)]_vars
    /\ [][(program_state = STATE_LOADED /\ last_call' # "load_file")
            => program_state' = STATE_LOADED]_vars

\* C14 witness: program_data_set_state has just made the state LOADED after a relocation
\* pass that returned.
C14_Witness ==
    /\ last_call = "program_data_set_state"
    /\ program_state = STATE_LOADED
    /\ reloc_status = "ok"


InsideBuffer(bytes, idx, size) == idx >= 0 /\ idx + size <= Len(bytes)

\* The unsigned value of the size bytes of the buffer from idx on, in the byte order of
\* endian_id (big-endian only for ENDIAN_BIG), as halves.
RECURSIVE ByteValue(_, _, _, _)
ByteValue(bytes, idx, size, big) ==
    IF size = 0
    THEN 0
    ELSE IF big
         THEN ByteValue(bytes, idx, size - 1, big) * Radix8 + bytes[idx + size]
         ELSE bytes[idx + 1] + Radix8 * ByteValue(bytes, idx + 1, size - 1, big)

ExpectedDecode(bytes, idx, size, endian_id) ==
    IF size = 4
    THEN IF endian_id = ENDIAN_BIG
         THEN [ hi |-> ByteValue(bytes, idx, 2, TRUE), lo |-> ByteValue(bytes, idx + 2, 2, TRUE) ]
         ELSE [ hi |-> ByteValue(bytes, idx + 2, 2, FALSE), lo |-> ByteValue(bytes, idx, 2, FALSE) ]
    ELSE [ hi |-> 0, lo |-> ByteValue(bytes, idx, size, endian_id = ENDIAN_BIG) ]

TagSize(data_size) ==
    IF data_size = DATA_TYPE_DATA32 THEN 4
    ELSE IF data_size = DATA_TYPE_DATA16 THEN 2
    ELSE IF data_size = DATA_TYPE_DATA08 THEN 1
    ELSE 0

\* C16: sized_value(tag, buffer, offset) returns the 32-bit decode for DATA32, the 16-bit
\* decode for DATA16 and the 8-bit decode for DATA08 of the bytes at the offset, fails with
\* the unsupported-size error for every other tag (CODE and ASCII included), and never
\* modifies the buffer.
C16_SizedValueDispatch ==
    (codec_call.op = "sized_value" /\ codec_result.kind # "none") =>
        LET size == TagSize(codec_call.data_size)
        IN  /\ codec_result.bytes_after = codec_call.bytes
            /\ size = 0 =>
                  (codec_result.kind = "raised" /\ codec_result.error = "unsupported size")
            /\ size # 0 => codec_result.error # "unsupported size"
            /\ (size # 0 /\ InsideBuffer(codec_call.bytes, codec_call.idx, size)) =>
                  /\ codec_result.kind = "returned"
                  /\ codec_result.value =
                        Some(ExpectedDecode(codec_call.bytes, codec_call.idx, size,
                                            codec_call.endian_id))

\* C16 witness: the little-endian 16-bit value of bytes 05 06 at offset 4 is 0x0605.
C16_Witness ==
    /\ codec_call.op = "sized_value" /\ codec_call.data_size = DATA_TYPE_DATA16
    /\ codec_call.endian_id = ENDIAN_LITTLE
    /\ codec_call.bytes = << 1, 2, 3, 4, 5, 6 >> /\ codec_call.idx = 4
    /\ codec_result.kind = "returned"
    /\ codec_result.value = Some([ hi |-> 0, lo |-> 1541 ])

\* C17 as claimed: a decode of 8, 16 or 32 bits at an offset where the requested bytes are
\* not all inside the buffer (past the end, too few bytes left, negative offset) gives the
\* caller an explicit failure: never a value, never a silent empty result.
C17_OutOfRangeDecodeFails ==
    (/\ codec_call.op = "sized_value" /\ codec_result.kind # "none"
     /\ TagSize(codec_call.data_size) # 0
     /\ ~InsideBuffer(codec_call.bytes, codec_call.idx, TagSize(codec_call.data_size)))
        => codec_result.kind = "raised"


(***************************************************************************)
(* Properties of cache_segment_data (SpecFramework)                        *)
(***************************************************************************)
\* C18 as claimed: when fewer than data_length bytes can be read for a file-backed segment,
\* cache_segment_data reports a hard load error to its caller, so that the load is aborted
\* and the program is never exposed as loaded.
C18_TruncatedReadReported ==
    (/\ load_step \notin { "idle", "loaded" }
     /\ \E i \in 1..Len(loaded_segments) :
           loaded_segments[i].file_offset # -1 /\ loaded_segments[i].cached_data = None)
        => /\ cache_status = "raised"
           /\ load_step = "failed"
           /\ program_state # STATE_LOADED


(***************************************************************************)
(* Properties of the reload of a project (SpecProjectLoad)                 *)
(***************************************************************************)
\* The file at file_path has the size and the checksum stored in the project.
MatchesStored(file_path) ==
    /\ file_path \in Paths
    /\ FileSystem[file_path].isfile
    /\ FileSystem[file_path].size = load_options.input_file_filesize
    /\ FileSystem[file_path].checksum = load_options.input_file_checksum

BadBinaryArguments(argv) ==
    /\ Len(argv) = 5
    /\ \/ lookup_processor_id_by_name(argv[3]) = None
       \/ lookup_processor_id_by_name(argv[3])[1] \notin get_processor_ids
       \/ str_to_int(argv[4]) = None
       \/ str_to_int(argv[5]) = None

\* C21 as claimed: started with <binary file> <arch name> <load address> <entry address>,
\* an arch name that is not a supported processor or an address that cannot be parsed ends
\* in a startup error: the error and the usage text are printed, the handler returns
\* False, no load is attempted and the handler raises no exception.
C21_BadArgumentsAreStartupError ==
    (startup.called /\ BadBinaryArguments(startup.argv)) =>
        /\ startup.raised = ""
        /\ startup.returned = Some(FALSE)
        /\ startup.load_attempted = ""
        /\ startup.printed = << "error", "usage" >>


(***************************************************************************)
(* Properties of the entry address (SpecEntry)                             *)
(***************************************************************************)
\* The lengths of the first n segments together.
RECURSIVE LengthsBefore(_, _)
LengthsBefore(segments, n) ==
    IF n = 0 THEN 0 ELSE LengthsBefore(segments, n - 1) + segments[n].length

\* C22: the entry address is the absolute address of the entry-point segment (the load
\* address plus the lengths of the segments before it) plus the entry-point offset; for a
\* binary file created with load address L and entry address E it is E.
C22_EntryAddressIsSegmentPlusOffset ==
    entrypoint.value # None =>
        /\ entrypoint.value[1] =
              file_info.load_address
                + LengthsBefore(file_info.segments, file_info.entrypoint_segment_id)
                + file_info.entrypoint_offset
        /\ file_info.system = "binary" =>
              /\ file_info.load_address = str_to_int(entrypoint.load_text)[1]
              /\ entrypoint.value = str_to_int(entrypoint.entry_text)

\* The entry address of a binary file whose entry address lies past its load address.
C22_Witness ==
    /\ entrypoint.value # None
    /\ file_info.system = "binary"
    /\ file_info.load_address # 0
    /\ entrypoint.value[1] # file_info.load_address
    /\ entrypoint.value = str_to_int(entrypoint.entry_text)


(***************************************************************************)
(* Properties of a repeated relocation pass (SpecReloc)                    *)
(***************************************************************************)
TargetAddress(f) == loaded_segments[FieldTarget(f) + 1].address

FieldNow(f) == uint32(SubSeq(DataNow(f.sid), FieldOffset(f) + 1, FieldOffset(f) + 4),
                      data_types_endian)

\* What one pass over the data as loaded gives.
AfterOnePass ==
    relocate_segment_data(loaded_segments, data_types_endian,
                          file_info.relocations_by_segment_id, {}, EmptyDict)

\* What C23 says of the second pass: every field listed against a segment at a non-zero
\* address A holds A + (A + v), that address is a further relocated address, and the
\* segment data differs from the data after one pass.
RelocatedTwice ==
    /\ \A f \in ListedFields :
          TargetAddress(f) # 0 =>
              /\ FieldNow(f) = AddAddress(RelocatedValue(f), TargetAddress(f))
              /\ AddAddress(RelocatedValue(f), TargetAddress(f)) \in DOMAIN relocated_addresses
              /\ Referrer(f) \in
                    relocated_addresses[AddAddress(RelocatedValue(f), TargetAddress(f))]
    /\ (\E f \in ListedFields : TargetAddress(f) # 0) =>
          file_info.segments # AfterOnePass.segments

\* C23 as claimed: relocate_segment_data is not idempotent: after a first pass that
\* returned, a second pass stores A + (A + v) in every field listed against a segment at a
\* non-zero address A, records it as a further relocated address, and the segment data
\* after two passes differs from the data after one.
C23_SecondPassAddsAgain ==
    (reloc_runs = 2 /\ ~ AfterOnePass.raised) => RelocatedTwice

\* C23 as amended: the same, when the second pass returns too (A + (A + v) fits in 32
\* bits) and the listed fields do not overlap.
C23_SecondPassAddsAgainDisjoint ==
    (reloc_runs = 2 /\ ~ AfterOnePass.raised /\ reloc_status = "ok" /\ FieldsDisjoint) =>
        RelocatedTwice

\* Two passes over a file at load address 0x1000 with two fields listed in segment 0.
C23_Witness ==
    /\ reloc_runs = 2 /\ ~ AfterOnePass.raised /\ reloc_status = "ok" /\ FieldsDisjoint
    /\ file_info.load_address = 4096
    /\ Len(file_info.relocations_by_segment_id[1]) = 1
    /\ Len(file_info.relocations_by_segment_id[1][1].offsets) = 2
    /\ file_info.segments # AfterOnePass.segments
    /\ AfterOnePass.segments # loaded_segments


(***************************************************************************)
(* Properties of cache_segment_data and of the segments (SpecCache)        *)
(***************************************************************************)
\* The segment the last cache_segment_data call was made for, and where its data is.
CachedSegment == file_info.segments[cache_call.segment_id + 1]
CachedFrom == cache_call.base_file_offset + CachedSegment.file_offset

\* The bytes the file holds from there on.
AvailableBytes == IF CachedFrom >= Len(input_file) THEN 0 ELSE Len(input_file) - CachedFrom

\* C24: after cache_segment_data(segment_id) the segment's cached_data is absent or a
\* buffer of exactly data_length bytes, the bytes of the file from base_offset +
\* file_offset on; it is absent when file_offset is -1, and the file is then neither
\* sought nor read; it is absent when fewer than data_length bytes could be read.
C24_CachedDataAbsentOrComplete ==
    cache_call.op = "cache_segment_data" =>
        /\ \/ CachedSegment.cached_data = None
           \/ /\ Len(CachedSegment.cached_data[1]) = CachedSegment.data_length
              /\ \A k \in 1..CachedSegment.data_length :
                    /\ CachedFrom + k <= Len(input_file)
                    /\ CachedSegment.cached_data[1][k] = input_file[CachedFrom + k]
        /\ CachedSegment.file_offset = -1 =>
              CachedSegment.cached_data = None /\ cache_call.file_ops = << >>
        /\ (CachedSegment.file_offset # -1 /\ AvailableBytes < CachedSegment.data_length) =>
              CachedSegment.cached_data = None
        /\ (CachedSegment.file_offset # -1 /\ AvailableBytes >= CachedSegment.data_length) =>
              /\ CachedSegment.cached_data # None
              /\ cache_call.file_ops =
                    << [ op |-> "seek", at |-> CachedFrom ],
                       [ op |-> "readinto", size |-> CachedSegment.data_length ] >>

\* A short read: two of four bytes were there, and nothing was stored.
C24_Witness ==
    /\ cache_call.op = "cache_segment_data"
    /\ CachedSegment.file_offset = 4 /\ cache_call.base_file_offset = 2
    /\ Len(input_file) = 8
    /\ CachedSegment.cached_data = None
    /\ \E i \in 1..Len(file_info.segments) :
          file_info.segments[i].file_offset = -1 /\ file_info.segments[i].cached_data = None


\* A segment without its cached_data.
Appended(segment) == [ segment EXCEPT !.cached_data = None ]

\* C25: once a segment is appended, its type, file_offset, data_length, length and address
\* never change: add_segment, cache_segment_data and relocate_segment_data leave every
\* existing segment as it was but for its cached_data, add_segment leaves the cached_data
\* too, and cache_segment_data(i) leaves the cached_data of every segment other than i.
C25_AppendedSegmentsImmutable ==
    cache_call.op # "none" =>
        /\ Len(cache_call.segments_before) <= Len(file_info.segments)
        /\ \A i \in 1..Len(cache_call.segments_before) :
              Appended(file_info.segments[i]) = Appended(cache_call.segments_before[i])
        /\ cache_call.op = "add_segment" =>
              /\ Len(file_info.segments) = Len(cache_call.segments_before) + 1
              /\ \A i \in 1..Len(cache_call.segments_before) :
                    file_info.segments[i] = cache_call.segments_before[i]
        /\ cache_call.op # "add_segment" =>
              Len(file_info.segments) = Len(cache_call.segments_before)
        /\ cache_call.op = "cache_segment_data" =>
              \A i \in 1..Len(cache_call.segments_before) :
                  i # cache_call.segment_id + 1 =>
                      file_info.segments[i] = cache_call.segments_before[i]

\* cache_segment_data filled the second segment while the first held relocated data.
C25_Witness ==
    /\ cache_call.op = "cache_segment_data"
    /\ cache_call.segment_id = 1
    /\ Len(file_info.segments) = 2
    /\ file_info.segments[2].cached_data # None
    /\ cache_call.segments_before[2].cached_data = None
    /\ file_info.segments[1].cached_data # None
    /\ reloc_runs > 0


\* The bits of flags that lie in mask, as a set of bit positions.
BitsOf(mask) == { b \in 0..FlagBits : BitAnd(mask, Pow2(b)) # 0 }

\* C26: the data-type field is the lowest bits of flags and as wide as the fewest bits
\* that hold the largest tag (3 bits for DATA32 = 5); BLOCK_FLAG_ALLOC and
\* BLOCK_FLAG_PROCESSED are two distinct single bits immediately above the field, outside
\* the data-type mask; BLOCK_SPLIT_BITMASK is exactly the union of the mask and the two bits.
C26_FlagLayout ==
    /\ DATA_TYPE_BIT0 = 0
    /\ \A tag \in SupportedTags : tag <= DATA_TYPE_DATA32
    /\ DATA_TYPE_BITCOUNT = 3
    /\ Pow2(DATA_TYPE_BITCOUNT) > DATA_TYPE_DATA32
    /\ Pow2(DATA_TYPE_BITCOUNT - 1) <= DATA_TYPE_DATA32
    /\ BitsOf(ShiftLeft(DATA_TYPE_BITMASK, DATA_TYPE_BIT0)) = 0..(DATA_TYPE_BITCOUNT - 1)
    /\ BitsOf(BLOCK_FLAG_ALLOC) = { DATA_TYPE_BITCOUNT }
    /\ BitsOf(BLOCK_FLAG_PROCESSED) = { DATA_TYPE_BITCOUNT + 1 }
    /\ BLOCK_FLAG_ALLOC = Pow2(DATA_TYPE_BITCOUNT)
    /\ BLOCK_FLAG_PROCESSED = Pow2(DATA_TYPE_BITCOUNT + 1)
    /\ BitAnd(BLOCK_FLAG_ALLOC, DATA_TYPE_BITMASK) = 0
    /\ BitAnd(BLOCK_FLAG_PROCESSED, DATA_TYPE_BITMASK) = 0
    /\ BitsOf(BLOCK_SPLIT_BITMASK) =
          BitsOf(DATA_TYPE_BITMASK) \cup BitsOf(BLOCK_FLAG_ALLOC) \cup BitsOf(BLOCK_FLAG_PROCESSED)
    /\ BLOCK_SPLIT_BITMASK = DATA_TYPE_BITMASK + BLOCK_FLAG_ALLOC + BLOCK_FLAG_PROCESSED
    /\ BitAnd(block_flags, BLOCK_SPLIT_BITMASK) =
          get_data_type_block_flags(get_block_data_type(block_flags))
          + BitAnd(block_flags, BLOCK_FLAG_ALLOC) + BitAnd(block_flags, BLOCK_FLAG_PROCESSED)
    /\ tag_set # None /\ tag_set[1] \in SupportedTags => tag_got = tag_set

\* The largest tag was stored in a block that is both ALLOC and PROCESSED.
C26_Witness ==
    /\ last_call = "set_block_data_type"
    /\ tag_set = Some(DATA_TYPE_DATA32)
    /\ tag_got = Some(DATA_TYPE_DATA32)
    /\ BitAnd(block_flags, BLOCK_FLAG_ALLOC) # 0
    /\ BitAnd(block_flags, BLOCK_FLAG_PROCESSED) # 0
    /\ BitAnd(block_flags, BLOCK_SPLIT_BITMASK) =
          DATA_TYPE_DATA32 + BLOCK_FLAG_ALLOC + BLOCK_FLAG_PROCESSED


(***************************************************************************)
(* Properties of the validation timers of LoadProjectDialog (SpecProjectLoad) *)
(***************************************************************************)
\* The Load button is enabled only for the current path text, validated against both the
\* stored size and the stored checksum.
LoadEnabledOnlyForCurrentText ==
    dialog.load_button =>
        /\ dialog.valid_file_path = Some(dialog.path_lineedit)
        /\ dialog.validation_attempt_text = Some(dialog.path_lineedit)
        /\ dialog.valid_size_checkbox /\ dialog.valid_checksum_checkbox
        /\ MatchesStored(dialog.path_lineedit)

\* A timer scheduled for an earlier text changes nothing when it fires.
StaleTimerHasNoEffect ==
    \A t \in dialog.timers \ dialog'.timers :
        t.n # dialog.validation_attempt => dialog' = [ dialog EXCEPT !.timers = @ \ { t } ]

\* A change of the text leaves the widgets reset and a timer for the new text pending.
TextChangeResets ==
    dialog'.path_lineedit # dialog.path_lineedit =>
        /\ dialog'.valid_file_path = None
        /\ ~ dialog'.valid_size_checkbox
        /\ ~ dialog'.valid_checksum_checkbox
        /\ ~ dialog'.load_button
        /\ dialog'.validation_attempt = dialog.validation_attempt + 1
        /\ dialog'.timers = dialog.timers \cup
              { [ n |-> dialog'.validation_attempt, file_path |-> dialog'.path_lineedit ] }

C28_ProgressDialogLifecycle ==
    LET h == main_window.handled
    IN  /\ main_window.raised = ""
        /\ h # << >> =>
              /\ h[1] = "show"
              /\ \A i \in 2..Len(h) : h[i] \in { "update", "close" }
              /\ \A i \in 1..(Len(h) - 1) : h[i] # "close"
        /\ main_window._progress_dialog # None <=> (h # << >> /\ h[Len(h)] # "close")
        /\ main_window._progress_dialog = None => main_window._progress_dialog_steps = 0
        /\ main_window._progress_dialog # None =>
              /\ main_window._progress_dialog_steps = main_window._progress_dialog[1].maximum
              /\ main_window._progress_dialog[1].value <= main_window._progress_dialog_steps

\* The second load of the window was shown, updated twice and closed.
C28_Witness ==
    /\ main_window.load_attempts = 2
    /\ main_window.editor_state = "initial"
    /\ main_window.handled = << "show", "update", "update", "close" >>
    /\ main_window._progress_dialog = None
    /\ main_window._progress_dialog_steps = 0

\* What one call of menu_file_open did, from the window before it and after it.
MenuFileOpenStep(before, after) ==
    LET m == after.menu
    IN  /\ m.called
        /\ m.state_before = before.editor_state
        /\ m.attempted =>
              /\ after.editor_state = "loading"
              /\ after.load_attempts = before.load_attempts + 1
              /\ \/ before.editor_state = "initial" /\ ~ m.asked
                 \/ /\ before.editor_state = "loaded"
                    /\ m.asked /\ m.answer = "Ok" /\ m.reset_all
                    /\ ~ after.rows_shown
        /\ ~ m.attempted => after = [ before EXCEPT !.menu = m ]
        /\ before.editor_state \notin { "initial", "loaded" } => ~ m.attempted /\ ~ m.asked
        /\ (before.editor_state = "loaded" /\ m.answer # "Ok") => ~ m.attempted /\ m.asked

\* C29: menu_file_open starts a load attempt only from the initial state or, from the
\* loaded state, after the user confirmed abandoning the work (the UI is reset first);
\* while a load is in progress it does nothing, and when the user declines the loaded work
\* and the UI are left unchanged.
C29_OpenOnlyFromInitialOrConfirmed ==
    /\ [][ main_window'.menu # main_window.menu => MenuFileOpenStep(main_window, main_window') ]_vars
    /\ [][ main_window'.load_attempts # main_window.load_attempts =>
              main_window'.menu # main_window.menu ]_vars

\* The loaded work was abandoned on confirmation and a second load is under way.
C29_Witness ==
    /\ main_window.menu.called
    /\ main_window.menu.state_before = "loaded"
    /\ main_window.menu.answer = "Ok"
    /\ main_window.menu.attempted
    /\ main_window.editor_state = "loading"
    /\ main_window.load_attempts = 2


(***************************************************************************)
(* Properties of _add_rows_to_model (SpecRows)                             *)
(***************************************************************************)
\* How often row occurs in l.
Occurrences(l, row) == Cardinality({ i \in 1..Len(l) : l[i] = row })

\* C30: after _add_rows_to_model on a model sorted by its sort column, every row of
\* addition_rows is in the model's row data exactly once, also when the model was empty or
\* an added row sorts after every existing row, and the rows present before are still present.
C30_AddedRowsPresentOnce ==
    main_window.last_handler = "_add_rows_to_model" =>
        /\ \A i \in 1..Len(main_window.addition_rows) :
              Occurrences(main_window.symbols_model._row_data, main_window.addition_rows[i]) = 1
        /\ \A i \in 1..Len(main_window.rows_before) :
              Occurrences(main_window.symbols_model._row_data, main_window.rows_before[i]) >= 1

====
